---- MODULE Spec2Model ----
(***************************************************************************)
(* The FAM evaluation engine of fs-model-clone2: SimpleFAM (simpleFam.ts), *)
(* the rule handlers (ruleHandlers.ts), the node evaluator (ast.ts), the   *)
(* cash-flow rule synthesizer (simpleFam.ts and cfRuleGenerator.ts) and    *)
(* the rounding helpers (numberUtils.ts).                                  *)
(***************************************************************************)
EXTENDS Integers, Sequences, FiniteSets, TLC

(***************************************************************************)
(* Natural numbers of any size: little-endian sequences of limbs below     *)
(* Base, without high zero limbs (zero is the empty sequence).  They carry *)
(* the 53-bit significands of the JavaScript Numbers the engine computes   *)
(* with, which do not fit the checker's 32-bit integers.                   *)
(***************************************************************************)
Base == 2^15

Pow2(n) == 2^n

RECURSIVE IntBitLen(_)
IntBitLen(n) == IF n = 0 THEN 0 ELSE 1 + IntBitLen(n \div 2)

\* bits per limb
LimbBits == IntBitLen(Base - 1)

Hd(a) == IF a = <<>> THEN 0 ELSE Head(a)

Tl(a) == IF a = <<>> THEN <<>> ELSE Tail(a)

RECURSIVE BTrim(_)
BTrim(a) ==
  IF a = <<>> THEN <<>>
  ELSE IF a[Len(a)] = 0 THEN BTrim(SubSeq(a, 1, Len(a) - 1))
  ELSE a

RECURSIVE BFromInt(_)
BFromInt(n) == IF n = 0 THEN <<>> ELSE <<n % Base>> \o BFromInt(n \div Base)

RECURSIVE BToInt(_)
BToInt(a) == IF a = <<>> THEN 0 ELSE Head(a) + Base * BToInt(Tail(a))

RECURSIVE BAddC(_, _, _)
BAddC(a, b, c) ==
  IF a = <<>> /\ b = <<>> THEN (IF c = 0 THEN <<>> ELSE <<c>>)
  ELSE LET x == Hd(a) + Hd(b) + c
       IN  <<x % Base>> \o BAddC(Tl(a), Tl(b), x \div Base)

BAdd(a, b) == BAddC(a, b, 0)

\* a - b for a >= b
RECURSIVE BSubC(_, _, _)
BSubC(a, b, c) ==
  IF a = <<>> THEN <<>>
  ELSE LET x == Hd(a) - Hd(b) - c
       IN  IF x < 0 THEN <<x + Base>> \o BSubC(Tl(a), Tl(b), 1)
           ELSE <<x>> \o BSubC(Tl(a), Tl(b), 0)

BSub(a, b) == BTrim(BSubC(a, b, 0))

\* -1, 0 or 1 as a < b, a = b, a > b
RECURSIVE BCmpFrom(_, _, _)
BCmpFrom(a, b, i) ==
  IF i = 0 THEN 0
  ELSE IF a[i] < b[i] THEN -1
  ELSE IF a[i] > b[i] THEN 1
  ELSE BCmpFrom(a, b, i - 1)

BCmp(a, b) ==
  IF Len(a) < Len(b) THEN -1
  ELSE IF Len(a) > Len(b) THEN 1
  ELSE BCmpFrom(a, b, Len(a))

\* a * k + c for 0 <= k, c < Base
RECURSIVE BMulSmallC(_, _, _)
BMulSmallC(a, k, c) ==
  IF a = <<>> THEN (IF c = 0 THEN <<>> ELSE <<c>>)
  ELSE LET x == Head(a) * k + c
       IN  <<x % Base>> \o BMulSmallC(Tail(a), k, x \div Base)

BMulSmall(a, k) == IF k = 0 THEN <<>> ELSE BMulSmallC(a, k, 0)

RECURSIVE BMul(_, _)
BMul(a, b) ==
  IF a = <<>> \/ b = <<>> THEN <<>>
  ELSE LET Shifted(rest) == IF rest = <<>> THEN <<>> ELSE <<0>> \o rest
       IN  BAdd(BMulSmall(a, Head(b)), Shifted(BMul(a, Tail(b))))

\* quotient and remainder of a by 0 < k < Base; i runs from the high limb down
RECURSIVE BDivSmallFrom(_, _, _, _)
BDivSmallFrom(a, k, i, r) ==
  IF i = 0 THEN [q |-> <<>>, r |-> r]
  ELSE LET x == r * Base + a[i]
           Lower(rest) == [q |-> rest.q \o <<x \div k>>, r |-> rest.r]
       IN  Lower(BDivSmallFrom(a, k, i - 1, x % k))

BDivSmall(a, k) ==
  LET Trimmed(d) == [q |-> BTrim(d.q), r |-> d.r]
  IN  Trimmed(BDivSmallFrom(a, k, Len(a), 0))

Zeros(n) == [i \in 1..n |-> 0]

\* a * 2^n
BShl(a, n) ==
  IF a = <<>> THEN <<>>
  ELSE Zeros(n \div LimbBits) \o BMulSmall(a, Pow2(n % LimbBits))

\* floor(a / 2^n)
BShr(a, n) ==
  LET k == n \div LimbBits
  IN  IF k >= Len(a) THEN <<>>
      ELSE BDivSmall(SubSeq(a, k + 1, Len(a)), Pow2(n % LimbBits)).q

\* bit i of a, bit 0 the lowest
BBit(a, i) ==
  LET k == i \div LimbBits
  IN  IF i < 0 \/ k >= Len(a) THEN 0
      ELSE (a[k + 1] \div Pow2(i % LimbBits)) % 2

\* a mod 2^n = 0
BLowZero(a, n) ==
  LET k == n \div LimbBits
  IN  IF n <= 0 THEN TRUE
      ELSE /\ \A i \in 1..k : i > Len(a) \/ a[i] = 0
           /\ (k >= Len(a) \/ a[k + 1] % Pow2(n % LimbBits) = 0)

BBitLen(a) ==
  IF a = <<>> THEN 0 ELSE LimbBits * (Len(a) - 1) + IntBitLen(a[Len(a)])

(***************************************************************************)
(* JavaScript Numbers (IEEE-754 binary64, round to nearest, ties to even). *)
(* A Number is [s, m, e] and stands for s * m * 2^e with s in {1, -1} and  *)
(* 2^52 <= m < 2^53; zero is [s |-> 1, m |-> <<>>, e |-> 0] (0 and -0 are  *)
(* equal under ===, the model keeps one).  Infinities, NaN and subnormals  *)
(* are outside the magnitudes the model's inputs reach.                    *)
(***************************************************************************)
MantBits == 53

FZero == [s |-> 1, m |-> <<>>, e |-> 0]

\* The Number nearest to s * M * 2^e, for any natural M
FRound(s, M, e) ==
  LET \* q1 is the significand after rounding, d the bits cut off
      Carried(q1, d) ==
        IF BBitLen(q1) > MantBits
        THEN [s |-> s, m |-> BShr(q1, 1), e |-> e + d + 1]
        ELSE [s |-> s, m |-> q1, e |-> e + d]
      \* q is the significand cut to 53 bits, half the first bit cut off,
      \* sticky whether a later one is set
      Cut(q, d, half, sticky) ==
        Carried(IF half /\ (sticky \/ q[1] % 2 = 1) THEN BAdd(q, <<1>>) ELSE q, d)
      \* L is the number of bits of M
      Sized(L) ==
        IF L <= MantBits
        THEN [s |-> s, m |-> BShl(M, MantBits - L), e |-> e - (MantBits - L)]
        ELSE Cut(BShr(M, L - MantBits), L - MantBits,
                 BBit(M, L - MantBits - 1) = 1,
                 ~BLowZero(M, L - MantBits - 1))
  IN  IF M = <<>> THEN FZero ELSE Sized(BBitLen(M))

FNeg(x) == IF x.m = <<>> THEN x ELSE [x EXCEPT !.s = -x.s]

\* x + y
FAdd(x, y) ==
  IF x.m = <<>> THEN y
  ELSE IF y.m = <<>> THEN x
  ELSE IF x.e - y.e > 2 * MantBits + 4 THEN x
  ELSE IF y.e - x.e > 2 * MantBits + 4 THEN y
  ELSE
    LET e == IF x.e < y.e THEN x.e ELSE y.e
        \* mx and my are the significands at the exponent e, c compares them
        Aligned(mx, my, c) ==
          IF x.s # y.s /\ c = 0 THEN FZero
          ELSE FRound(IF x.s = y.s \/ c > 0 THEN x.s ELSE y.s,
                      IF x.s = y.s THEN BAdd(mx, my)
                      ELSE IF c > 0 THEN BSub(mx, my) ELSE BSub(my, mx),
                      e)
        Shifted(mx, my) == Aligned(mx, my, BCmp(mx, my))
    IN  Shifted(BShl(x.m, x.e - e), BShl(y.m, y.e - e))

\* x - y
FSub(x, y) == FAdd(x, FNeg(y))

\* x * y
FMul(x, y) ==
  IF x.m = <<>> \/ y.m = <<>> THEN FZero
  ELSE FRound(x.s * y.s, BMul(x.m, y.m), x.e + y.e)

\* The greatest q below Base with q * d <= r, found bit by bit from the top
RECURSIVE BDigit(_, _, _, _)
BDigit(r, d, bit, q) ==
  IF bit < 0 THEN q
  ELSE IF BCmp(BMulSmall(d, q + Pow2(bit)), r) <= 0
       THEN BDigit(r, d, bit - 1, q + Pow2(bit))
       ELSE BDigit(r, d, bit - 1, q)

\* quotient and remainder of a by d # 0, limb by limb from the high limb i
RECURSIVE BDivFrom(_, _, _, _)
BDivFrom(a, d, i, r) ==
  IF i = 0 THEN [q |-> <<>>, r |-> r]
  ELSE LET Lower(g, rest) == [q |-> rest.q \o <<g>>, r |-> rest.r]
           Digit(x, g) ==
             Lower(g, BDivFrom(a, d, i - 1, BSub(x, BMulSmall(d, g))))
           Limb(x) == Digit(x, BDigit(x, d, LimbBits - 1, 0))
       IN  Limb(BTrim(<<a[i]>> \o r))

BDiv(a, d) ==
  LET Trimmed(qr) == [q |-> BTrim(qr.q), r |-> qr.r]
  IN  Trimmed(BDivFrom(a, d, Len(a), <<>>))

\* x / y for y # 0
FDiv(x, y) ==
  IF x.m = <<>> THEN FZero
  ELSE
    LET k == MantBits + 3
        Quotient(qr) ==
          FRound(x.s * y.s,
                 BAdd(BMulSmall(qr.q, 2), IF qr.r = <<>> THEN <<>> ELSE <<1>>),
                 x.e - y.e - k - 1)
    IN  Quotient(BDiv(BShl(x.m, k), y.m))

\* The Number nearest to s * n / d for integers n >= 0 and 0 < d < Base:
\* what reading a decimal literal, or parseFloat of a decimal string, gives
FRatio(s, n, d) ==
  IF n = 0 THEN FZero
  ELSE
    LET k == MantBits + LimbBits + 2
        Quotient(qr) ==
          FRound(s, BAdd(BMulSmall(qr.q, 2), IF qr.r = 0 THEN <<>> ELSE <<1>>),
                 0 - k - 1)
    IN  Quotient(BDivSmall(BShl(BFromInt(n), k), d))

\* the Number of an integer, which it holds exactly
FInt(n) ==
  IF n = 0 THEN FZero
  ELSE FRound(IF n < 0 THEN -1 ELSE 1, BFromInt(IF n < 0 THEN 0 - n ELSE n), 0)

\* n / 10^p, the Number a decimal literal with p places denotes
Dec(n, p) ==
  FRatio(IF n < 0 THEN -1 ELSE 1, IF n < 0 THEN 0 - n ELSE n, 10^p)

\* Number.prototype.toFixed(f), as the signed integer n of the digits it
\* prints: the n for which n / 10^f is closest to x, the larger magnitude
\* when two are equally close
ToFixed(x, f) ==
  IF x.m = <<>> THEN 0
  ELSE
    LET T == BMulSmall(x.m, 10^f)
        n == IF x.e >= 0 THEN BShl(T, x.e)
             ELSE BAdd(BShr(T, 0 - x.e),
                       IF BBit(T, 0 - x.e - 1) = 1 THEN <<1>> ELSE <<>>)
    IN  x.s * BToInt(n)

\* parseFloat(value.toFixed(2))
roundTo2Decimals(value) == Dec(ToFixed(value, 2), 2)

\* parseInt(value.toFixed(0), 10)
roundToInteger(value) == FInt(ToFixed(value, 0))

\* x < y, x <= y
FLess(x, y) == LET Negative(d) == d.m # <<>> /\ d.s = -1 IN Negative(FSub(x, y))

FAbs(x) == [x EXCEPT !.s = 1]

(***************************************************************************)
(* Periods (periodUtils.ts).  A period is the record createPeriod builds,  *)
(* without its display label.                                              *)
(***************************************************************************)
FISCAL_YEAR_END == 3

calculateFiscalYear(year, month) ==
  IF month <= FISCAL_YEAR_END THEN year ELSE year + 1

isFiscalYearEnd(month) == month = FISCAL_YEAR_END

generatePeriodId(year, month, periodType) ==
  ToString(year) \o "-" \o ToString(month) \o "-" \o periodType

createPeriod(year, month, periodType) ==
  [id              |-> generatePeriodId(year, month, periodType),
   year            |-> year,
   month           |-> month,
   isFiscalYearEnd |-> isFiscalYearEnd(month),
   fiscalYear      |-> calculateFiscalYear(year, month),
   periodType      |-> periodType]

\* a period that is its own successor
SamePeriod(latest) == latest

\* SimpleFAM.createNextPeriod for the two period types it accepts
createNextPeriod(latest) ==
  IF latest.periodType = "ANNUAL"
  THEN createPeriod(latest.year + 1, latest.month, latest.periodType)
  ELSE IF latest.month + 1 > 12
       THEN createPeriod(latest.year + 1, 1, latest.periodType)
       ELSE createPeriod(latest.year, latest.month + 1, latest.periodType)

(***************************************************************************)
(* The Maps and the Record of SimpleFAM.  accounts and rules keep the      *)
(* insertion order of their keys, which the synthesizer and compute()      *)
(* iterate in: they are sequences of entries.  values, periodIndexById and *)
(* valueKeyToNodeId are functions on the set of their keys.                *)
(***************************************************************************)
createValueKeyString(periodId, accountId) == periodId \o "::" \o accountId

\* position of the entry with this id in a sequence of entries, 0 if none
IndexOfId(entries, id) ==
  IF \E i \in 1..Len(entries) : entries[i].id = id
  THEN CHOOSE i \in 1..Len(entries) : entries[i].id = id
  ELSE 0

\* Map.has / key in Record
HasId(entries, id) == IndexOfId(entries, id) # 0

\* Map.get / Record[key], for a key that is present
GetById(entries, id) == entries[IndexOfId(entries, id)]

\* Map.set / Record[key] = : an existing key keeps its place
SetById(entries, e) ==
  IF HasId(entries, e.id)
  THEN [entries EXCEPT ![IndexOfId(entries, e.id)] = e]
  ELSE Append(entries, e)

\* a map that keeps only the key set last
MapReset(m, k, v) == [x \in {k} |-> v]

\* Map.set on a function-valued map
MapSet(m, k, v) == [x \in DOMAIN m \cup {k} |-> IF x = k THEN v ELSE m[x]]

EmptyMap == [x \in {} |-> 0]

\* entries of a list put into an empty Map one after the other
RECURSIVE FromList(_, _)
FromList(acc, list) ==
  IF list = <<>> THEN acc ELSE FromList(SetById(acc, Head(list)), Tail(list))

\* rules[accountId] as [has, rule]
RuleOf(rules, accountId) ==
  IF HasId(rules, accountId)
  THEN [has |-> TRUE, rule |-> GetById(rules, accountId).rule]
  ELSE [has |-> FALSE, rule |-> [type |-> "none"]]

SetRule(rules, accountId, rule) ==
  SetById(rules, [id |-> accountId, rule |-> rule])

(***************************************************************************)
(* Formula nodes and rules (model/types.ts).  The binary node carries its  *)
(* operator in op; an account node carries its optional relative period as *)
(* [has, offset].  An account is [id, fs_type, isCredit, ignoredForCf,     *)
(* isCfBaseProfit, isCashAccount], an absent flag being FALSE and an       *)
(* absent fs_type "null"; display names are left out.                      *)
(***************************************************************************)
Num(v) == [type |-> "NUMBER", value |-> v]

Acc(id) == [type |-> "ACCOUNT", id |-> id, period |-> [has |-> FALSE, offset |-> 0]]

AccAt(id, offset) ==
  [type |-> "ACCOUNT", id |-> id, period |-> [has |-> TRUE, offset |-> offset]]

Bin(op, left, right) ==
  [type |-> "BINARY_OP", op |-> op, left |-> left, right |-> right]

\* an account the synthesizer adds
CfAccount(id) ==
  [id |-> id, fs_type |-> "CF", isCredit |-> FALSE, ignoredForCf |-> TRUE,
   isCfBaseProfit |-> FALSE, isCashAccount |-> FALSE]

(***************************************************************************)
(* cfRuleBuilders.ts                                                       *)
(***************************************************************************)
getPreviousPeriodDifferenceForAccount(accountId) ==
  Bin("SUB", Acc(accountId), AccAt(accountId, -1))

multiplyFormulaNodeBySign(formulaNode, sign) ==
  Bin("MUL", formulaNode, Num(FInt(sign)))

multiplyAccountBySign(accountId, sign) ==
  Bin("MUL", Acc(accountId), Num(FInt(sign)))

RECURSIVE sumFormulaNodes(_, _)
sumFormulaNodes(items, baseNode) ==
  IF items = <<>> THEN baseNode
  ELSE sumFormulaNodes(Tail(items), Bin("ADD", baseNode, Head(items)))

(***************************************************************************)
(* The synthesizer SimpleFAM.generateCashFlowRules (simpleFam.ts), the one *)
(* compute() of simpleFam.ts calls.  Its state st is [accounts, rules,     *)
(* items, base]: the two tables it writes, cfRuleItems and                 *)
(* baseProfitAccountId ("" for null).  A loop over accounts.values() also  *)
(* visits the accounts added while it runs, so the loops go by position.   *)
(***************************************************************************)
CreditSign(account) == IF account.isCredit THEN 1 ELSE -1

\* accounts.set(cfAccountId, ...) unless accounts.has(cfAccountId)
EnsureCfAccount(accounts, cfAccountId) ==
  IF HasId(accounts, cfAccountId) THEN accounts
  ELSE Append(accounts, CfAccount(cfAccountId))

\* simpleFam.ts 459-481: the working-capital rule of a BS account
MethodWorkingCapital(st, account) ==
  LET cfAccountId == account.id \o "_cf_wc"
      diff        == getPreviousPeriodDifferenceForAccount(account.id)
  IN  [st EXCEPT
         !.accounts = EnsureCfAccount(st.accounts, cfAccountId),
         !.rules    = SetRule(st.rules, cfAccountId,
                        [type |-> "CALCULATION",
                         formulaNode |->
                           multiplyFormulaNodeBySign(diff, CreditSign(account))]),
         !.items    = Append(st.items, Acc(cfAccountId))]

\* simpleFam.ts 488-518: one flow of a BALANCE_CHANGE rule
MethodFlow(st, account, flow) ==
  IF ~HasId(st.accounts, flow.ref) THEN st
  ELSE
    LET flowAccount == GetById(st.accounts, flow.ref)
        cfAccountId == flow.ref \o "_cf_adj"
        flowSign    == IF flow.sign = "PLUS" THEN 1 ELSE -1
        cfSign      == CreditSign(account) * flowSign
    IN  IF ~(flowAccount.fs_type = "PL" \/ flowAccount.fs_type = "PP&E") THEN st
        ELSE IF flowAccount.isCfBaseProfit THEN st
        ELSE [st EXCEPT
                !.accounts = EnsureCfAccount(st.accounts, cfAccountId),
                !.rules    = SetRule(st.rules, cfAccountId,
                               [type |-> "CALCULATION",
                                formulaNode |->
                                  multiplyAccountBySign(flow.ref, cfSign)]),
                !.items    = Append(st.items, Acc(cfAccountId))]

RECURSIVE MethodFlows(_, _, _, _)
MethodFlows(st, account, flows, j) ==
  IF j > Len(flows) THEN st
  ELSE MethodFlows(MethodFlow(st, account, flows[j]), account, flows, j + 1)

\* simpleFam.ts 443-521: the body of the loop for one account
MethodAccount(st, account) ==
  IF account.isCfBaseProfit THEN [st EXCEPT !.base = account.id]
  ELSE
    LET r   == RuleOf(st.rules, account.id)
        isB == r.has /\ r.rule.type = "BALANCE_CHANGE"
    IN  IF isB THEN MethodFlows(st, account, r.rule.flowAccounts, 1)
        ELSE IF /\ account.fs_type = "BS"
                /\ ~account.isCashAccount
                /\ ~account.ignoredForCf
             THEN MethodWorkingCapital(st, account)
             ELSE st

RECURSIVE MethodAccounts(_, _)
MethodAccounts(st, i) ==
  IF i > Len(st.accounts) THEN st
  ELSE MethodAccounts(MethodAccount(st, st.accounts[i]), i + 1)

\* a rule that takes cash_change_cf off the balance
SubtractingCashRule ==
  [type |-> "BALANCE_CHANGE",
   flowAccounts |-> <<[ref |-> "cash_change_cf", sign |-> "MINUS"]>>]

CashRule ==
  [type |-> "BALANCE_CHANGE",
   flowAccounts |-> <<[ref |-> "cash_change_cf", sign |-> "PLUS"]>>]

\* [accounts, rules, err] after SimpleFAM.generateCashFlowRules
SimpleFAM_generateCashFlowRules(accounts, rules) ==
  LET Looped(st) ==
        IF st.base = ""
        THEN [accounts |-> st.accounts, rules |-> st.rules,
              err |-> "MissingBaseProfit"]
        ELSE [accounts |-> st.accounts,
              rules |->
                SetRule(SetRule(st.rules, "cash_change_cf",
                                [type |-> "CALCULATION",
                                 formulaNode |->
                                   sumFormulaNodes(st.items, Acc(st.base))]),
                        "cash", CashRule),
              err |-> ""]
  IN  Looped(MethodAccounts([accounts |-> accounts, rules |-> rules,
                             items |-> <<>>, base |-> ""], 1))

(***************************************************************************)
(* The synthesizer of cfRuleGenerator.ts.  Its functions work on the two   *)
(* tables in place and return the ids they made: st is [accounts, rules,   *)
(* result].  It reads and writes the sheet type of an account under the    *)
(* name sheetType; the model keeps one field for the sheet type, fs_type,  *)
(* the sheet type of the accounts the build of this synthesizer is given.  *)
(***************************************************************************)
BASE_PROFIT_CF_ACCOUNT_ID == "baseProfit_cf"

\* cfRuleGenerator.ts 28-66 and 89-127: one flow, for the sign looked for
FlowRule(st, account, flow, wanted) ==
  IF ~HasId(st.accounts, flow.ref) THEN st
  ELSE
    LET flowAccount == GetById(st.accounts, flow.ref)
        cfAccountId == flow.ref \o "_cf_adj"
        flowSign    == IF wanted = "PLUS" THEN 1 ELSE -1
        cfSign      == CreditSign(account) * flowSign
    IN  IF flowAccount.fs_type \in {"BS", "CF", "null"} THEN st
        ELSE IF flow.sign # wanted THEN st
        ELSE IF flowAccount.isCfBaseProfit THEN st
        ELSE [st EXCEPT
                !.accounts = EnsureCfAccount(st.accounts, cfAccountId),
                !.rules    = SetRule(st.rules, cfAccountId,
                               [type |-> "CALCULATION",
                                formulaNode |->
                                  multiplyAccountBySign(flow.ref, cfSign)]),
                !.result   = Append(st.result, cfAccountId)]

RECURSIVE FlowRules(_, _, _, _, _)
FlowRules(st, account, flows, j, wanted) ==
  IF j > Len(flows) THEN st
  ELSE FlowRules(FlowRule(st, account, flows[j], wanted),
                 account, flows, j + 1, wanted)

RECURSIVE FlowRulesOfAccounts(_, _, _)
FlowRulesOfAccounts(st, i, wanted) ==
  IF i > Len(st.accounts) THEN st
  ELSE
    LET account == st.accounts[i]
        r       == RuleOf(st.rules, account.id)
    IN  IF r.has /\ r.rule.type = "BALANCE_CHANGE"
        THEN FlowRulesOfAccounts(
               FlowRules(st, account, r.rule.flowAccounts, 1, wanted),
               i + 1, wanted)
        ELSE FlowRulesOfAccounts(st, i + 1, wanted)

generateNonCashAddBacks(accounts, rules) ==
  FlowRulesOfAccounts([accounts |-> accounts, rules |-> rules,
                       result |-> <<>>], 1, "MINUS")

generateCapexOutflows(accounts, rules) ==
  FlowRulesOfAccounts([accounts |-> accounts, rules |-> rules,
                       result |-> <<>>], 1, "PLUS")

\* cfRuleGenerator.ts 147-175: the body of the loop for one account
WorkingCapitalChange(st, account) ==
  LET r           == RuleOf(st.rules, account.id)
      cfAccountId == account.id \o "_cf_wc"
      diff        == getPreviousPeriodDifferenceForAccount(account.id)
  IN  IF /\ account.fs_type = "BS"
         /\ ~account.isCashAccount
         /\ ~account.ignoredForCf
         /\ ~(r.has /\ r.rule.type = "BALANCE_CHANGE")
      THEN [st EXCEPT
              !.accounts = EnsureCfAccount(st.accounts, cfAccountId),
              !.rules    = SetRule(st.rules, cfAccountId,
                             [type |-> "CALCULATION",
                              formulaNode |->
                                multiplyFormulaNodeBySign(diff,
                                                          CreditSign(account))]),
              !.result   = Append(st.result, cfAccountId)]
      ELSE st

RECURSIVE WorkingCapitalChanges(_, _)
WorkingCapitalChanges(st, i) ==
  IF i > Len(st.accounts) THEN st
  ELSE WorkingCapitalChanges(WorkingCapitalChange(st, st.accounts[i]), i + 1)

generateWorkingCapitalChanges(accounts, rules) ==
  WorkingCapitalChanges([accounts |-> accounts, rules |-> rules,
                         result |-> <<>>], 1)

\* position of the first account flagged isCfBaseProfit, 0 if none
FirstBaseProfit(accounts) ==
  IF \E i \in 1..Len(accounts) : accounts[i].isCfBaseProfit
  THEN CHOOSE i \in 1..Len(accounts) :
         /\ accounts[i].isCfBaseProfit
         /\ \A j \in 1..(i - 1) : ~accounts[j].isCfBaseProfit
  ELSE 0

AccountNodes(ids) == [i \in 1..Len(ids) |-> Acc(ids[i])]

\* [accounts, rules, err] after generateCashFlowRules(accounts, rules)
generateCashFlowRules(accounts, rules) ==
  LET b    == FirstBaseProfit(accounts)
      base == IF b = 0 THEN "" ELSE accounts[b].id
      a0   == IF b = 0 THEN accounts
              ELSE EnsureCfAccount(accounts, BASE_PROFIT_CF_ACCOUNT_ID)
      r0   == IF b = 0 THEN rules
              ELSE SetRule(rules, BASE_PROFIT_CF_ACCOUNT_ID,
                           [type |-> "REFERENCE", ref |-> base])
      \* nc, wc and cx are what the three generators gave, in this order
      Generated(nc, wc, cx) ==
        IF base = ""
        THEN [accounts |-> cx.accounts, rules |-> cx.rules,
              err |-> "MissingBaseProfit"]
        ELSE [accounts |-> cx.accounts,
              rules |->
                SetRule(SetRule(cx.rules, "cash_change_cf",
                                [type |-> "CALCULATION",
                                 formulaNode |->
                                   sumFormulaNodes(
                                     AccountNodes(nc.result \o wc.result
                                                    \o cx.result),
                                     Acc(BASE_PROFIT_CF_ACCOUNT_ID))]),
                        "cash", CashRule),
              err |-> ""]
      WithWorkingCapital(nc, wc) ==
        Generated(nc, wc, generateCapexOutflows(wc.accounts, wc.rules))
      WithAddBacks(nc) ==
        WithWorkingCapital(nc, generateWorkingCapitalChanges(nc.accounts, nc.rules))
  IN  WithAddBacks(generateNonCashAddBacks(a0, r0))

(***************************************************************************)
(* The node registry and the node constructors (ast.ts).  The registry is  *)
(* the sequence of the nodes added, a node id the position of its node.    *)
(* Labels are diagnostic text and are left out.                            *)
(***************************************************************************)
makeFF(reg, value) ==
  [reg |-> Append(reg, [type |-> "FF", value |-> value]), id |-> Len(reg) + 1]

makeTT(reg, left, right, operator) ==
  [reg |-> Append(reg, [type |-> "TT", ref1 |-> left, ref2 |-> right,
                        operator |-> operator]),
   id  |-> Len(reg) + 1]

(***************************************************************************)
(* Period lookups of SimpleFAM.  E is what a build reads of the engine:    *)
(* [periods, periodIndexById, values, rules].  Indices count from 0 as in  *)
(* the source.  A lookup gives [err, ...] with err = "" when it succeeds.  *)
(***************************************************************************)
getPeriodIndex(E, periodId) ==
  IF periodId \in DOMAIN E.periodIndexById
  THEN [err |-> "", index |-> E.periodIndexById[periodId]]
  ELSE [err |-> "UnknownPeriod", index |-> 0]

\* a lookup that stops at the ends of the period table
ClampedPeriodByOffset(E, basePeriodId, offset) ==
  LET b == getPeriodIndex(E, basePeriodId)
      targetIndex == b.index + offset
  IN  IF b.err # "" THEN [err |-> b.err, id |-> ""]
      ELSE IF targetIndex < 0 THEN [err |-> "", id |-> E.periods[1].id]
      ELSE IF targetIndex >= Len(E.periods)
           THEN [err |-> "", id |-> E.periods[Len(E.periods)].id]
           ELSE [err |-> "", id |-> E.periods[targetIndex + 1].id]

\* a lookup that ignores the offset
BasePeriodAtAnyOffset(E, basePeriodId, offset) == [err |-> "", id |-> basePeriodId]

findPeriodByOffset(E, basePeriodId, offset) ==
  LET b == getPeriodIndex(E, basePeriodId)
      targetIndex == b.index + offset
  IN  IF b.err # "" THEN [err |-> b.err, id |-> ""]
      ELSE IF targetIndex < 0 \/ targetIndex >= Len(E.periods)
           THEN [err |-> "PeriodOutOfRange", id |-> ""]
           ELSE [err |-> "", id |-> E.periods[targetIndex + 1].id]

resolvePeriodIdWithBase(E, basePeriodId, reference) ==
  IF ~reference.has THEN [err |-> "", id |-> basePeriodId]
  ELSE findPeriodByOffset(E, basePeriodId, reference.offset)

(***************************************************************************)
(* The builder: buildNodeForAccount, buildFormulaNode and the rule         *)
(* handlers (ruleHandlers.ts).  st is [reg, memo, visiting, err, log]:     *)
(* nodeRegistry, valueKeyToNodeId, visiting, the error thrown ("" while    *)
(* none is) and the record of the calls of buildNodeForAccount that        *)
(* returned, each [key, id, seeded, stored].  A build gives [st, id]; once *)
(* st.err is set every caller passes the result on, as a throw does.       *)
(***************************************************************************)
\* a throw that reports every error as a cycle
ThrowsCycle(st, e) == [st |-> [st EXCEPT !.err = "Cycle"], id |-> 0]

Throw(st, e) == [st |-> [st EXCEPT !.err = e], id |-> 0]

Returned(st, key, id, seeded, stored) ==
  [st EXCEPT !.log = Append(st.log, [key |-> key, id |-> id,
                                     seeded |-> seeded, stored |-> stored])]

\* a table that never finds a key
MemoMisses(st, valueKey) == FALSE

\* valueKeyToNodeId.has(valueKey)
MemoHas(st, valueKey) == valueKey \in DOMAIN st.memo

\* a leaf that took the registered value as it is
StoredLeafValue(registeredValue) == registeredValue

\* the value of the leaf made for a registered value
RegisteredLeafValue(registeredValue) == roundTo2Decimals(registeredValue)

\* a handler whose formula refers to no account
ConstantFormula(rule, accountId) == Num(FZero)

\* handleBalanceChange: the sum of the signed flows, NUMBER 0 for none
RECURSIVE FlowsExpr(_, _, _)
FlowsExpr(flows, j, acc) ==
  IF j > Len(flows) THEN acc
  ELSE
    LET baseNode   == Acc(flows[j].ref)
        signedNode == IF flows[j].sign = "PLUS" THEN baseNode
                      ELSE Bin("MUL", baseNode, Num(FInt(-1)))
    IN  FlowsExpr(flows, j + 1,
                  IF j = 1 THEN signedNode ELSE Bin("ADD", acc, signedNode))

\* the formula a rule handler hands to buildFormula
HandlerFormula(rule, accountId) ==
  CASE rule.type = "CALCULATION" -> rule.formulaNode
    [] rule.type = "PROPORTIONATE" ->
         Bin("MUL", AccAt(accountId, -1),
             Bin("DIV", Acc(rule.ref), AccAt(rule.ref, -1)))
    [] rule.type = "GROWTH_RATE" ->
         Bin("MUL", AccAt(accountId, -1), Num(FAdd(FInt(1), rule.rate)))
    [] rule.type = "PERCENTAGE" ->
         Bin("MUL", Acc(rule.ref), Num(rule.percentage))
    [] rule.type = "BALANCE_CHANGE" ->
         Bin("ADD", AccAt(accountId, -1),
             FlowsExpr(rule.flowAccounts, 1, Num(FZero)))

RECURSIVE buildNodeForAccount(_, _, _, _)
RECURSIVE buildFormulaNode(_, _, _, _, _)

\* ruleHandlers[rule.type](rule, context)
ruleHandler(E, st, rule, periodId, accountId) ==
  CASE rule.type = "INPUT" ->
         LET n == makeFF(st.reg, rule.value)
         IN  [st |-> [st EXCEPT !.reg = n.reg], id |-> n.id]
    [] rule.type = "FIXED_VALUE" ->
         LET prev == resolvePeriodIdWithBase(E, periodId,
                                             [has |-> TRUE, offset |-> -1])
         IN  IF prev.err # "" THEN Throw(st, prev.err)
             ELSE buildNodeForAccount(E, st, prev.id, accountId)
    [] rule.type = "REFERENCE" ->
         buildNodeForAccount(E, st, periodId, rule.ref)
    [] OTHER ->
         buildFormulaNode(E, st, HandlerFormula(rule, accountId),
                          periodId, accountId)

buildNodeForAccount(E, st, periodId, accountId) ==
  LET valueKey == createValueKeyString(periodId, accountId)
      st1      == [st EXCEPT !.visiting = @ \cup {valueKey}]
  IN  IF MemoHas(st, valueKey)
      THEN [st |-> Returned(st, valueKey, st.memo[valueKey], FALSE, FZero),
            id |-> st.memo[valueKey]]
      ELSE IF valueKey \in st.visiting THEN Throw(st, "Cycle")
      ELSE IF valueKey \in DOMAIN E.values
      THEN LET Leaf(n) ==
                 [st |-> Returned([st1 EXCEPT
                                     !.reg = n.reg,
                                     !.memo = MapSet(@, valueKey, n.id),
                                     !.visiting = @ \ {valueKey}],
                                  valueKey, n.id, TRUE, E.values[valueKey]),
                  id |-> n.id]
           IN  Leaf(makeFF(st1.reg, RegisteredLeafValue(E.values[valueKey])))
      ELSE IF ~HasId(E.rules, accountId)
      THEN Throw([st1 EXCEPT !.visiting = @ \ {valueKey}], "MissingRule")
      ELSE IF GetById(E.rules, accountId).rule.type \notin
                {"INPUT", "CALCULATION", "FIXED_VALUE", "REFERENCE",
                 "PROPORTIONATE", "GROWTH_RATE", "PERCENTAGE", "BALANCE_CHANGE"}
      THEN Throw([st1 EXCEPT !.visiting = @ \ {valueKey}], "UnknownRuleType")
      ELSE LET Built(r) ==
                 IF r.st.err # "" THEN r
                 ELSE [st |-> Returned([r.st EXCEPT
                                          !.memo = MapSet(@, valueKey, r.id),
                                          !.visiting = @ \ {valueKey}],
                                       valueKey, r.id, FALSE, FZero),
                       id |-> r.id]
           IN  Built(ruleHandler(E, st1, GetById(E.rules, accountId).rule,
                                 periodId, accountId))

buildFormulaNode(E, st, formulaNode, periodId, accountId) ==
  CASE formulaNode.type = "NUMBER" ->
         LET n == makeFF(st.reg, formulaNode.value)
         IN  [st |-> [st EXCEPT !.reg = n.reg], id |-> n.id]
    [] formulaNode.type = "ACCOUNT" ->
         LET target == resolvePeriodIdWithBase(E, periodId, formulaNode.period)
         IN  IF target.err # "" THEN Throw(st, target.err)
             ELSE buildNodeForAccount(E, st, target.id, formulaNode.id)
    [] formulaNode.type = "BINARY_OP" ->
         LET l == buildFormulaNode(E, st, formulaNode.left, periodId, accountId)
         IN  IF l.st.err # "" THEN l
             ELSE
               LET r == buildFormulaNode(E, l.st, formulaNode.right,
                                         periodId, accountId)
               IN  IF r.st.err # "" THEN r
                   ELSE
                     LET n == makeTT(r.st.reg, l.id, r.id, formulaNode.op)
                     IN  [st |-> [r.st EXCEPT !.reg = n.reg], id |-> n.id]
    [] OTHER -> Throw(st, "UnknownFormulaType")

(***************************************************************************)
(* topoSort and evalTopo (ast.ts).  Loops over lists are split in halves   *)
(* so that the nesting of the evaluation stays logarithmic in their        *)
(* length; the order in which the elements are treated is the list order.  *)
(***************************************************************************)
\* visit(id): the reachable set in the order its elements are added
RECURSIVE visit(_, _, _)
visit(reg, reachable, id) ==
  IF \E i \in 1..Len(reachable) : reachable[i] = id THEN reachable
  ELSE IF id < 1 \/ id > Len(reg) THEN Append(reachable, id)
  ELSE IF reg[id].type = "TT"
       THEN visit(reg, visit(reg, Append(reachable, id), reg[id].ref1),
                  reg[id].ref2)
       ELSE Append(reachable, id)

RECURSIVE visitRoots(_, _, _)
visitRoots(reg, reachable, rootNodeIds) ==
  IF rootNodeIds = <<>> THEN reachable
  ELSE visitRoots(reg, visit(reg, reachable, Head(rootNodeIds)),
                  Tail(rootNodeIds))

\* a list of children that names a node once though both its references
\* are to c
RECURSIVE childrenOnce(_, _, _, _, _)
childrenOnce(reg, nodes, c, lo, hi) ==
  IF lo > hi THEN <<>>
  ELSE IF lo = hi
  THEN LET id == nodes[lo]
       IN  IF reg[id].type = "TT" /\ (reg[id].ref1 = c \/ reg[id].ref2 = c)
           THEN <<id>>
           ELSE <<>>
  ELSE childrenOnce(reg, nodes, c, lo, (lo + hi) \div 2) \o
       childrenOnce(reg, nodes, c, (lo + hi) \div 2 + 1, hi)

\* the entries nodes[lo..hi] add to children.get(c), in order
RECURSIVE childrenOf(_, _, _, _, _)
childrenOf(reg, nodes, c, lo, hi) ==
  IF lo > hi THEN <<>>
  ELSE IF lo = hi
  THEN LET id == nodes[lo]
       IN  IF reg[id].type = "TT"
           THEN (IF reg[id].ref1 = c THEN <<id>> ELSE <<>>) \o
                (IF reg[id].ref2 = c THEN <<id>> ELSE <<>>)
           ELSE <<>>
  ELSE childrenOf(reg, nodes, c, lo, (lo + hi) \div 2) \o
       childrenOf(reg, nodes, c, (lo + hi) \div 2 + 1, hi)

\* an inner loop that puts a node that became ready at the head of the queue
RECURSIVE releaseChildrenFirst(_, _, _)
releaseChildrenFirst(k, ch, j) ==
  IF j > Len(ch) THEN k
  ELSE LET newDegree == k.inDegree[ch[j]] - 1
       IN  releaseChildrenFirst(
             [k EXCEPT !.inDegree[ch[j]] = newDegree,
                       !.queue = IF newDegree = 0 THEN <<ch[j]>> \o @ ELSE @],
             ch, j + 1)

\* an inner loop that releases no node
releaseNoChildren(k, ch, j) == k

\* the inner loop of the queue loop: k is [queue, sorted, inDegree]
RECURSIVE releaseChildren(_, _, _)
releaseChildren(k, ch, j) ==
  IF j > Len(ch) THEN k
  ELSE LET newDegree == k.inDegree[ch[j]] - 1
       IN  releaseChildren(
             [k EXCEPT !.inDegree[ch[j]] = newDegree,
                       !.queue = IF newDegree = 0 THEN Append(@, ch[j]) ELSE @],
             ch, j + 1)

\* up to n turns of the while loop
RECURSIVE queueLoop(_, _, _)
queueLoop(children, k, n) ==
  IF n = 0 \/ k.queue = <<>> THEN k
  ELSE IF n = 1
  THEN LET current == Head(k.queue)
       IN  releaseChildren([k EXCEPT !.queue = Tail(@),
                                     !.sorted = Append(@, current)],
                           children[current], 1)
  ELSE LET half == queueLoop(children, k, n \div 2)
       IN  IF half.queue = <<>> THEN half
           ELSE queueLoop(children, half, n - n \div 2)

\* [err, sorted]
topoSort(reg, rootNodeIds) ==
  LET nodes == visitRoots(reg, <<>>, rootNodeIds)
      ids   == {nodes[i] : i \in 1..Len(nodes)}
  IN  IF \E id \in ids : id < 1 \/ id > Len(reg)
      THEN [err |-> "TypeError", sorted |-> <<>>]
      ELSE
        LET inDegree == [id \in ids |-> IF reg[id].type = "TT" THEN 2 ELSE 0]
            children == [id \in ids |-> childrenOf(reg, nodes, id, 1, Len(nodes))]
            queue    == SelectSeq(nodes, LAMBDA id : inDegree[id] = 0)
            Sorted(k) ==
              IF Len(k.sorted) # Len(nodes)
              THEN [err |-> "Cycle", sorted |-> k.sorted]
              ELSE [err |-> "", sorted |-> k.sorted]
        IN  Sorted(queueLoop(children,
                             [queue |-> queue, sorted |-> <<>>,
                              inDegree |-> inDegree], Len(nodes)))

\* a loop body in which MUL tests its right operand as DIV does
TrappingEvalNode(reg, v, id) ==
  IF reg[id].type = "FF"
  THEN [v EXCEPT !.values = MapSet(@, id, reg[id].value)]
  ELSE
    LET node == reg[id]
    IN  IF node.ref1 \notin DOMAIN v.values \/ node.ref2 \notin DOMAIN v.values
        THEN [v EXCEPT !.err = "MissingChildValue"]
        ELSE
          LET leftValue  == v.values[node.ref1]
              rightValue == v.values[node.ref2]
          IN  CASE node.operator = "ADD" ->
                     [v EXCEPT !.values = MapSet(@, id, FAdd(leftValue, rightValue))]
                [] node.operator = "SUB" ->
                     [v EXCEPT !.values = MapSet(@, id, FSub(leftValue, rightValue))]
                [] node.operator \in {"MUL", "DIV"} ->
                     IF rightValue = FZero
                     THEN [v EXCEPT !.err = "DivisionByZero"]
                     ELSE [v EXCEPT !.values =
                             MapSet(@, id, IF node.operator = "MUL"
                                           THEN FMul(leftValue, rightValue)
                                           ELSE FDiv(leftValue, rightValue))]
                [] OTHER -> [v EXCEPT !.err = "UnknownOperator"]

\* the body of the loop of evalTopo for one node: v is [err, values]
evalNode(reg, v, id) ==
  IF reg[id].type = "FF"
  THEN [v EXCEPT !.values = MapSet(@, id, reg[id].value)]
  ELSE
    LET node == reg[id]
    IN  IF node.ref1 \notin DOMAIN v.values \/ node.ref2 \notin DOMAIN v.values
        THEN [v EXCEPT !.err = "MissingChildValue"]
        ELSE
          LET leftValue  == v.values[node.ref1]
              rightValue == v.values[node.ref2]
          IN  CASE node.operator = "ADD" ->
                     [v EXCEPT !.values = MapSet(@, id, FAdd(leftValue, rightValue))]
                [] node.operator = "SUB" ->
                     [v EXCEPT !.values = MapSet(@, id, FSub(leftValue, rightValue))]
                [] node.operator = "MUL" ->
                     [v EXCEPT !.values = MapSet(@, id, FMul(leftValue, rightValue))]
                [] node.operator = "DIV" ->
                     IF rightValue = FZero
                     THEN [v EXCEPT !.err = "DivisionByZero"]
                     ELSE [v EXCEPT !.values =
                                      MapSet(@, id, FDiv(leftValue, rightValue))]
                [] OTHER -> [v EXCEPT !.err = "UnknownOperator"]

RECURSIVE evalOrder(_, _, _, _, _)
evalOrder(reg, v, order, lo, hi) ==
  IF v.err # "" \/ lo > hi THEN v
  ELSE IF lo = hi THEN evalNode(reg, v, order[lo])
  ELSE LET Rest(half) ==
             IF half.err # "" THEN half
             ELSE evalOrder(reg, half, order, (lo + hi) \div 2 + 1, hi)
       IN  Rest(evalOrder(reg, v, order, lo, (lo + hi) \div 2))

\* [err, values]
evalTopo(reg, rootNodeIds) ==
  LET Values(order) ==
        IF order.err # "" THEN [err |-> order.err, values |-> EmptyMap]
        ELSE evalOrder(reg, [err |-> "", values |-> EmptyMap],
                       order.sorted, 1, Len(order.sorted))
  IN  Values(topoSort(reg, rootNodeIds))

(***************************************************************************)
(* SimpleFAM.compute.  The engine is the record fam of the fields of       *)
(* SimpleFAM; generator names the synthesizer the engine is built with:    *)
(* "method" for SimpleFAM.generateCashFlowRules, "module" for              *)
(* generateCashFlowRules of cfRuleGenerator.ts.                            *)
(***************************************************************************)
\* compute() 162-170
roundedValue(accountId, value) ==
  IF accountId = "assets_total" \/ accountId = "equity_and_liabilities_total"
  THEN roundToInteger(value)
  ELSE roundTo2Decimals(value)

\* a table that is not cleared
KeptMemo(valueKeyToNodeId) == valueKeyToNodeId

\* valueKeyToNodeId.clear() and visiting.clear()
ClearedMemo(valueKeyToNodeId) == EmptyMap

ClearedVisiting(visiting) == {}

CashFlowRules(generator, accounts, rules) ==
  IF generator = "method" THEN SimpleFAM_generateCashFlowRules(accounts, rules)
  ELSE generateCashFlowRules(accounts, rules)

\* compute() 155-174, the body of the loop for one key of rules:
\* c is [b, values, output, err], b the state of the builder
computeAccount(fam, c, periodId, accountId) ==
  LET E == [periods |-> fam.periods, periodIndexById |-> fam.periodIndexById,
            values |-> c.values, rules |-> fam.rules]
      \* r is what the build gave, v the rounded value
      Stored(r, v) ==
        [c EXCEPT
           !.b = r.st,
           !.values = MapSet(@, createValueKeyString(periodId, accountId), v),
           !.output = Append(@, [id |-> accountId, value |-> v])]
      Solved(r, result) ==
        IF result.err # "" THEN [c EXCEPT !.b = r.st, !.err = result.err]
        ELSE Stored(r, roundedValue(accountId,
                                    IF r.id \in DOMAIN result.values
                                    THEN result.values[r.id] ELSE FZero))
      Built(r) ==
        IF r.st.err # "" THEN [c EXCEPT !.b = r.st, !.err = r.st.err]
        ELSE Solved(r, evalTopo(r.st.reg, <<r.id>>))
  IN  Built(buildNodeForAccount(E, c.b, periodId, accountId))

RECURSIVE computeAccounts(_, _, _, _, _, _)
computeAccounts(fam, c, periodId, keys, lo, hi) ==
  IF c.err # "" \/ lo > hi THEN c
  ELSE IF lo = hi THEN computeAccount(fam, c, periodId, keys[lo].id)
  ELSE LET Rest(half) ==
             IF half.err # "" THEN half
             ELSE computeAccounts(fam, half, periodId, keys,
                                  (lo + hi) \div 2 + 1, hi)
       IN  Rest(computeAccounts(fam, c, periodId, keys, lo, (lo + hi) \div 2))

\* The engine after compute(), with what the call returned or threw and
\* the record of the builder's calls: [fam, err, periodId, output, log]
compute(generator, fam) ==
  IF fam.periods = <<>>
  THEN [fam |-> fam, err |-> "TypeError", periodId |-> "", output |-> <<>>,
        log |-> <<>>]
  ELSE IF fam.periods[Len(fam.periods)].periodType \notin {"ANNUAL", "MONTHLY"}
  THEN [fam |-> fam, err |-> "UnknownPeriodType", periodId |-> "",
        output |-> <<>>, log |-> <<>>]
  ELSE
    LET \* fam1 is the engine when the loop starts, c the state it ends in
        Computed(nextPeriod, fam1, c) ==
          [fam |-> [fam1 EXCEPT !.nodeRegistry = c.b.reg,
                                !.valueKeyToNodeId = c.b.memo,
                                !.visiting = c.b.visiting,
                                !.values = c.values],
           err |-> c.err, periodId |-> nextPeriod.id,
           output |-> IF c.err = "" THEN c.output ELSE <<>>,
           log |-> c.b.log]
        Prepared(nextPeriod, cf, fam1) ==
          IF cf.err # ""
          THEN [fam |-> fam1, err |-> cf.err, periodId |-> nextPeriod.id,
                output |-> <<>>, log |-> <<>>]
          ELSE Computed(nextPeriod, fam1,
                 computeAccounts(
                   fam1,
                   [b |-> [reg |-> fam1.nodeRegistry,
                           memo |-> fam1.valueKeyToNodeId,
                           visiting |-> fam1.visiting,
                           err |-> "", log |-> <<>>],
                    values |-> fam1.values, output |-> <<>>, err |-> ""],
                   nextPeriod.id, fam1.rules, 1, Len(fam1.rules)))
        \* cf is what the synthesizer gave
        Synthesized(nextPeriod, cf) ==
          Prepared(nextPeriod, cf,
                   [fam EXCEPT
                      !.periods = Append(@, nextPeriod),
                      !.periodIndexById = MapSet(@, nextPeriod.id, Len(fam.periods)),
                      !.nodeRegistry = <<>>,
                      !.valueKeyToNodeId = ClearedMemo(@),
                      !.visiting = ClearedVisiting(@),
                      !.accounts = cf.accounts,
                      !.rules = cf.rules])
    IN  Synthesized(createNextPeriod(fam.periods[Len(fam.periods)]),
                    CashFlowRules(generator, fam.accounts, fam.rules))

(***************************************************************************)
(* The other operations of SimpleFAM, as functions of the engine.  Each    *)
(* gives [fam, err]: the engine it leaves and the error it threw.          *)
(***************************************************************************)
setAccounts(fam, list) ==
  [fam |-> [fam EXCEPT !.accounts = FromList(<<>>, list)], err |-> ""]

\* setPeriods 84-87: a later period of the same id takes the index over
RECURSIVE indexPeriods(_, _, _)
indexPeriods(index, list, i) ==
  IF i > Len(list) THEN index
  ELSE indexPeriods(MapSet(index, list[i].id, i - 1), list, i + 1)

setPeriods(fam, list) ==
  [fam |-> [fam EXCEPT !.periods = list,
                       !.periodIndexById = indexPeriods(EmptyMap, list, 1)],
   err |-> ""]

\* loadInputData: the items before the first that throws are stored
RECURSIVE loadItems(_, _, _)
loadItems(fam, list, i) ==
  IF i > Len(list) THEN [fam |-> fam, err |-> ""]
  ELSE IF ~HasId(fam.accounts, list[i].accountId)
  THEN [fam |-> fam, err |-> "UnknownAccount"]
  ELSE IF list[i].periodId \notin DOMAIN fam.periodIndexById
  THEN [fam |-> fam, err |-> "UnknownPeriod"]
  ELSE loadItems(
         [fam EXCEPT !.values =
            MapSet(@, createValueKeyString(list[i].periodId, list[i].accountId),
                   list[i].value)],
         list, i + 1)

loadInputData(fam, list) == loadItems(fam, list, 1)

setRules(fam, list) ==
  [fam |-> [fam EXCEPT !.rules = FromList(<<>>, list)], err |-> ""]

getValue(fam, periodId, accountId) ==
  LET key == createValueKeyString(periodId, accountId)
  IN  IF key \in DOMAIN fam.values
      THEN [has |-> TRUE, value |-> fam.values[key]]
      ELSE [has |-> FALSE, value |-> FZero]

(***************************************************************************)
(* The inputs of a client.  A scenario is [accounts, periodLists, inputs,  *)
(* ruleLists]: the lists a client hands to setAccounts, setPeriods (one of *)
(* periodLists), loadInputData and setRules (one of ruleLists).            *)
(***************************************************************************)
Account(id, fs_type) ==
  [id |-> id, fs_type |-> fs_type, isCredit |-> FALSE, ignoredForCf |-> FALSE,
   isCfBaseProfit |-> FALSE, isCashAccount |-> FALSE]

BaseProfit(id) == [Account(id, "PL") EXCEPT !.isCfBaseProfit = TRUE]

CashAccount(id) == [Account(id, "BS") EXCEPT !.isCashAccount = TRUE]

Credit(account) == [account EXCEPT !.isCredit = TRUE]

Ignored(account) == [account EXCEPT !.ignoredForCf = TRUE]

Rule(id, rule) == [id |-> id, rule |-> rule]

Input(value) == [type |-> "INPUT", value |-> value]

Calculation(formulaNode) == [type |-> "CALCULATION", formulaNode |-> formulaNode]

GrowthRate(rate) == [type |-> "GROWTH_RATE", rate |-> rate]

Percentage(percentage, ref) ==
  [type |-> "PERCENTAGE", percentage |-> percentage, ref |-> ref]

BalanceChange(flowAccounts) ==
  [type |-> "BALANCE_CHANGE", flowAccounts |-> flowAccounts]

Flow(ref, sign) == [ref |-> ref, sign |-> sign]

Value(accountId, periodId, value) ==
  [accountId |-> accountId, periodId |-> periodId, value |-> value]

FY2024 == createPeriod(2024, 3, "ANNUAL")

FY2025 == createPeriod(2025, 3, "ANNUAL")

\* S1 of the specification, as written there
S1Accounts ==
  <<Account("unit_price", "PL"), Account("quantity", "PL"),
    Account("revenue", "PL"), Account("cogs", "PL"),
    Account("gross_profit", "PL")>>

S1Inputs ==
  <<Value("unit_price", FY2024.id, FInt(1000)),
    Value("quantity", FY2024.id, FInt(500)),
    Value("revenue", FY2024.id, FInt(500000)),
    Value("cogs", FY2024.id, FInt(300000)),
    Value("gross_profit", FY2024.id, FInt(200000))>>

S1Rules ==
  <<Rule("unit_price", GrowthRate(Dec(1, 1))),
    Rule("quantity", GrowthRate(Dec(1, 1))),
    Rule("revenue", Calculation(Bin("MUL", Acc("unit_price"), Acc("quantity")))),
    Rule("cogs", Percentage(Dec(6, 1), "revenue")),
    Rule("gross_profit", Calculation(Bin("SUB", Acc("revenue"), Acc("cogs"))))>>

\* S1 with a base profit and a cash account holding 0.125
S1CashAccounts ==
  SubSeq(S1Accounts, 1, 4) \o <<BaseProfit("gross_profit"), CashAccount("cash")>>

S1CashInputs == S1Inputs \o <<Value("cash", FY2024.id, Dec(125, 3))>>

\* S2: a and b refer to each other in the same period, neither is seeded
S2Accounts == <<Account("a", "PL"), Account("b", "PL"), BaseProfit("profit")>>

S2Inputs == <<Value("profit", FY2024.id, FInt(100))>>

S2Rules ==
  <<Rule("a", Calculation(Acc("b"))), Rule("b", Calculation(Acc("a"))),
    Rule("profit", Input(FInt(100)))>>

\* S3: a division by the constant zero
S3Accounts == <<Account("x", "PL"), BaseProfit("profit")>>

S3Inputs == S2Inputs

S3Rules ==
  <<Rule("x", Calculation(Bin("DIV", Num(FInt(1)), Num(FZero)))),
    Rule("profit", Input(FInt(100)))>>

\* S5: the model of the cash flow synthesis, with whole amounts and with
\* amounts of tenths of a cent
S5Accounts ==
  <<BaseProfit("net_income"), Account("depreciation", "PL"),
    Account("capex", "PP&E"), Account("tangible_assets", "BS"),
    Account("account_receivable", "BS"), CashAccount("cash")>>

S5Inputs ==
  <<Value("net_income", FY2024.id, FInt(80000)),
    Value("depreciation", FY2024.id, FInt(10000)),
    Value("capex", FY2024.id, FInt(5000)),
    Value("tangible_assets", FY2024.id, FInt(100000)),
    Value("account_receivable", FY2024.id, FInt(20000)),
    Value("cash", FY2024.id, FInt(50000))>>

S5Rules(net_income, depreciation) ==
  <<Rule("net_income", Input(net_income)),
    Rule("depreciation", Input(depreciation)),
    Rule("capex", Input(FInt(5000))),
    Rule("tangible_assets",
         BalanceChange(<<Flow("capex", "PLUS"), Flow("depreciation", "MINUS")>>)),
    Rule("account_receivable", GrowthRate(Dec(1, 1)))>>

S5RuleLists ==
  {S5Rules(FInt(84000), FInt(10000)),
   S5Rules(Dec(84000004, 3), Dec(10000004, 3))}

\* S6: the totals and a regular account at the boundaries of rounding, on
\* a table of one year and on one of two years, the later first
S6Accounts ==
  <<Ignored(Account("assets_total", "BS")),
    Ignored(Credit(Account("equity_and_liabilities_total", "BS"))),
    Account("regular", "PL"), BaseProfit("profit"), CashAccount("cash")>>

S6Inputs == <<Value("cash", FY2024.id, FInt(100))>>

S6Rules ==
  <<Rule("assets_total", Input(Dec(15000049, 2))),
    Rule("equity_and_liabilities_total", Input(Dec(1500005, 1))),
    Rule("regular", Input(Dec(123455, 3))),
    Rule("profit", Input(Dec(-125, 3)))>>

\* a balance sheet whose cash account carries no flag
CashAccounts == <<BaseProfit("net_income"), Account("cash", "BS")>>

CashInputs ==
  <<Value("net_income", FY2024.id, FInt(100)), Value("cash", FY2024.id, FInt(50))>>

CashRules == <<Rule("net_income", Input(FInt(100)))>>

\* a table of months, the last one a December
December2024 == createPeriod(2024, 12, "MONTHLY")

MonthlyRules == <<Rule("profit", Input(FInt(10)))>>

\* a balanced book: cash, a receivable and tangible assets against a
\* payable and retained earnings, with amounts in tenths of a cent
BalanceAccounts ==
  <<BaseProfit("net_income"), Account("depreciation", "PL"),
    Account("capex", "PP&E"), CashAccount("cash"),
    Account("account_receivable", "BS"), Account("tangible_assets", "BS"),
    Ignored(Account("assets_total", "BS")),
    Credit(Account("account_payable", "BS")),
    Credit(Account("retained_earnings", "BS")),
    Ignored(Credit(Account("equity_and_liabilities_total", "BS")))>>

BalanceInputs ==
  <<Value("cash", FY2024.id, Dec(11047, 2)),
    Value("account_receivable", FY2024.id, Dec(2001, 2)),
    Value("tangible_assets", FY2024.id, FInt(500)),
    Value("assets_total", FY2024.id, Dec(63048, 2)),
    Value("account_payable", FY2024.id, FInt(30)),
    Value("retained_earnings", FY2024.id, Dec(60048, 2)),
    Value("equity_and_liabilities_total", FY2024.id, Dec(63048, 2))>>

BalanceRules ==
  <<Rule("net_income", Input(Dec(10004, 3))),
    Rule("depreciation", Input(Dec(3004, 3))),
    Rule("capex", Input(FInt(5))),
    Rule("account_receivable", Input(Dec(20006, 3))),
    Rule("tangible_assets",
         BalanceChange(<<Flow("capex", "PLUS"), Flow("depreciation", "MINUS")>>)),
    Rule("account_payable", Input(Dec(30004, 3))),
    Rule("retained_earnings", BalanceChange(<<Flow("net_income", "PLUS")>>)),
    Rule("assets_total",
         Calculation(Bin("ADD", Bin("ADD", Acc("cash"), Acc("account_receivable")),
                         Acc("tangible_assets")))),
    Rule("equity_and_liabilities_total",
         Calculation(Bin("ADD", Acc("account_payable"),
                         Acc("retained_earnings"))))>>

Scenarios == {"S1", "S1Cash", "S2", "S3", "S5", "S6", "Cash", "Monthly"}

\* the list a client of the scenario hands to setAccounts
ScenarioAccounts(name) ==
  CASE name = "S1" -> S1Accounts
    [] name = "S1Cash" -> S1CashAccounts
    [] name = "S2" -> S2Accounts
    [] name = "S3" -> S3Accounts
    [] name = "S5" -> S5Accounts
    [] name = "S6" -> S6Accounts
    [] name = "Cash" -> CashAccounts
    [] name = "Monthly" -> <<BaseProfit("profit"), CashAccount("cash")>>
    [] name = "Balance" -> BalanceAccounts
    \* a balance sheet whose flows come from accounts of every sheet type,
    \* from the base profit and from an account that does not exist
    [] name = "Flows" ->
         <<BaseProfit("net_income"), Account("depreciation", "PL"),
           Account("capex", "PP&E"), Account("grant", "OTHER"),
           Account("loan", "BS"), Account("memo", "null"),
           Account("transfer", "CF"), Account("interest", "PL"),
           Account("tangible_assets", "BS"), Credit(Account("debt", "BS")),
           CashAccount("cash")>>
    \* a base profit kept on the balance sheet
    [] name = "Equity" ->
         <<Credit([BaseProfit("retained_earnings") EXCEPT !.fs_type = "BS"]),
           CashAccount("cash")>>
    \* two accounts flagged as the base profit
    [] name = "TwoProfits" ->
         <<BaseProfit("operating_profit"), BaseProfit("net_income"),
           CashAccount("cash")>>
    \* a cost that follows a driver which falls to zero
    [] name = "Proportionate" ->
         <<BaseProfit("profit"), Account("revenue", "PL"), Account("cogs", "PL"),
           CashAccount("cash")>>
    \* S4 of the specification, as written there and with a base profit
    [] name = "S4" -> <<Account("x", "PL")>>
    [] name = "S4Profit" -> <<Account("x", "PL"), BaseProfit("profit")>>
    \* a table of years that end in December, with 100.125 in cash and a
    \* rule of the client for cash
    [] name = "December" -> <<BaseProfit("profit"), CashAccount("cash")>>
    \* an account that is twice another one
    [] name = "Doubled" ->
         <<BaseProfit("profit"), Account("twice", "PL"), CashAccount("cash")>>
    \* accounts that refer to the period after the one they are computed for
    [] name = "Forward" ->
         <<BaseProfit("profit"), Account("a", "PL"), Account("b", "PL"),
           CashAccount("cash")>>
    \* a flow account that two balance sheet accounts share, or that one
    \* account takes with both signs
    [] name = "Shared" ->
         <<BaseProfit("profit"), Account("depreciation", "PL"),
           Account("tangible_assets", "BS"), Account("intangible_assets", "BS"),
           CashAccount("cash")>>
    \* a balance sheet account that the client computes from cash
    [] name = "Pooled" ->
         <<BaseProfit("profit"), Account("deposits", "BS"), CashAccount("cash")>>
    \* a batch of inputs that names a period the table gets only from a
    \* compute() and an account that is not in the table
    [] name = "Partial" -> <<BaseProfit("profit"), CashAccount("cash")>>

\* the lists it hands to setPeriods
ScenarioPeriodLists(name) ==
  CASE name = "S6" -> {<<FY2024>>, <<FY2025, FY2024>>}
    [] name = "Monthly" -> {<<December2024>>}
    [] name = "December" -> {<<createPeriod(2024, 12, "ANNUAL")>>}
    [] OTHER -> {<<FY2024>>}

\* the list it hands to loadInputData
ScenarioInputs(name) ==
  CASE name = "S1" -> S1Inputs
    [] name = "S1Cash" -> S1CashInputs
    [] name = "S2" -> S2Inputs
    [] name = "S3" -> S3Inputs
    [] name = "S5" -> S5Inputs
    [] name = "S6" -> S6Inputs
    [] name = "Cash" -> CashInputs
    [] name = "Monthly" -> <<Value("cash", December2024.id, FInt(100))>>
    [] name = "Balance" -> BalanceInputs
    [] name = "Flows" ->
         <<Value("tangible_assets", FY2024.id, FInt(1000)),
           Value("debt", FY2024.id, FInt(400)),
           Value("cash", FY2024.id, FInt(100))>>
    [] name = "Equity" -> <<Value("cash", FY2024.id, FInt(50))>>
    [] name = "TwoProfits" -> <<Value("cash", FY2024.id, FInt(50))>>
    [] name = "Proportionate" ->
         <<Value("revenue", FY2024.id, FInt(50)),
           Value("cogs", FY2024.id, FInt(30)),
           Value("cash", FY2024.id, FInt(100))>>
    [] name = "S4" -> <<>>
    [] name = "S4Profit" -> <<>>
    [] name = "December" ->
         <<Value("cash", createPeriod(2024, 12, "ANNUAL").id, Dec(100125, 3))>>
    [] name = "Doubled" -> <<Value("cash", FY2024.id, FInt(50))>>
    [] name = "Forward" -> <<Value("cash", FY2024.id, FInt(50))>>
    [] name = "Shared" ->
         <<Value("tangible_assets", FY2024.id, FInt(1000)),
           Value("intangible_assets", FY2024.id, FInt(500)),
           Value("cash", FY2024.id, FInt(100))>>
    [] name = "Pooled" ->
         <<Value("deposits", FY2024.id, FInt(30)),
           Value("cash", FY2024.id, FInt(100))>>
    [] name = "Partial" ->
         <<Value("cash", FY2024.id, FInt(100)),
           Value("profit", FY2025.id, FInt(7)),
           Value("stock", FY2024.id, FInt(5))>>

\* the lists it hands to setRules
ScenarioRuleLists(name) ==
  CASE name = "S1" -> {S1Rules}
    [] name = "S1Cash" -> {S1Rules}
    [] name = "S2" -> {S2Rules}
    [] name = "S3" -> {S3Rules}
    [] name = "S5" -> S5RuleLists
    [] name = "S6" -> {S6Rules}
    [] name = "Cash" -> {CashRules}
    [] name = "Monthly" -> {MonthlyRules}
    [] name = "Balance" -> {BalanceRules}
    [] name = "Flows" ->
         LET Rules(more) ==
               <<Rule("net_income", Input(FInt(100))),
                 Rule("depreciation", Input(FInt(10))),
                 Rule("capex", Input(FInt(20))),
                 Rule("grant", Input(FInt(5))),
                 Rule("loan", Input(FInt(40))),
                 Rule("memo", Input(FInt(1))),
                 Rule("transfer", Input(FInt(2))),
                 Rule("interest", Input(FInt(3))),
                 Rule("tangible_assets",
                      BalanceChange(<<Flow("capex", "PLUS"),
                                      Flow("depreciation", "MINUS"),
                                      Flow("grant", "PLUS"),
                                      Flow("loan", "PLUS"),
                                      Flow("memo", "MINUS"),
                                      Flow("transfer", "PLUS"),
                                      Flow("net_income", "PLUS")>> \o more)),
                 Rule("debt", BalanceChange(<<Flow("interest", "PLUS")>>))>>
         IN  {Rules(<<>>), Rules(<<Flow("ghost", "MINUS")>>)}
    [] name = "Equity" -> {<<Rule("retained_earnings", Input(FInt(100)))>>}
    [] name = "TwoProfits" ->
         {<<Rule("operating_profit", Input(FInt(120))),
            Rule("net_income", Input(FInt(100)))>>}
    [] name = "Proportionate" ->
         {<<Rule("profit", Input(FInt(10))),
            Rule("revenue", Input(FZero)),
            Rule("cogs", [type |-> "PROPORTIONATE", ref |-> "revenue"])>>}
    [] name = "S4" -> {<<Rule("x", GrowthRate(Dec(1, 1)))>>}
    [] name = "S4Profit" ->
         {<<Rule("x", GrowthRate(Dec(1, 1))), Rule("profit", Input(FInt(10)))>>}
    [] name = "December" ->
         {<<Rule("cash", Input(FInt(7))), Rule("profit", Input(FInt(10)))>>}
    [] name = "Doubled" ->
         {<<Rule("profit", Input(Dec(1001, 2))),
            Rule("twice", Calculation(Bin("ADD", Acc("profit"), Acc("profit"))))>>}
    [] name = "Forward" ->
         {<<Rule("profit", Input(FInt(10))),
            Rule("a", Calculation(AccAt("b", -1))),
            Rule("b", Calculation(AccAt(later, 1)))>> :
            later \in {"a", "profit", "b"}}
    [] name = "Shared" ->
         {<<Rule("profit", Input(FInt(100))),
            Rule("depreciation", Input(FInt(10))),
            Rule("tangible_assets", BalanceChange(flows)),
            Rule("intangible_assets",
                 BalanceChange(<<Flow("depreciation", "MINUS")>>))>> :
            flows \in {<<Flow("depreciation", "MINUS")>>,
                       <<Flow("depreciation", "PLUS"),
                         Flow("depreciation", "MINUS")>>}}
    [] name = "Pooled" ->
         {<<Rule("profit", profit), Rule("deposits", Calculation(pooled))>> :
            profit \in {Input(FInt(100))},
            pooled \in {Acc("cash"), AccAt("cash", -1)}}
    [] name = "Partial" -> {<<Rule("profit", Input(FInt(10)))>>}

Scenario(name) ==
  [accounts |-> ScenarioAccounts(name), periodLists |-> ScenarioPeriodLists(name),
   inputs |-> ScenarioInputs(name), ruleLists |-> ScenarioRuleLists(name)]

Generators == {"method", "module"}

(***************************************************************************)
(* The engine and its client.  The first eight variables are the fields    *)
(* of SimpleFAM.  generator names the synthesizer the build carries        *)
(* (the method of the class or the module cfRuleGenerator), scenario the   *)
(* inputs of the client.  The others record the calls: last is the call    *)
(* just made, with the engine it was made on, computes the number of       *)
(* compute() calls, given the list last handed to setPeriods, derived the  *)
(* number of compute() calls since then and clean whether all of them      *)
(* returned.                                                               *)
(***************************************************************************)
VARIABLES accounts, periods, periodIndexById, values, rules, nodeRegistry,
          valueKeyToNodeId, visiting, generator, scenario, last, computes,
          given, derived, clean

vars == <<accounts, periods, periodIndexById, values, rules, nodeRegistry,
          valueKeyToNodeId, visiting, generator, scenario, last, computes,
          given, derived, clean>>

MaxComputes == 2

\* the number of years the balanced book is carried forward
MaxBalanceComputes == 52

Fam ==
  [accounts |-> accounts, periods |-> periods,
   periodIndexById |-> periodIndexById, values |-> values, rules |-> rules,
   nodeRegistry |-> nodeRegistry, valueKeyToNodeId |-> valueKeyToNodeId,
   visiting |-> visiting]

\* new SimpleFAM()
NewFam ==
  [accounts |-> <<>>, periods |-> <<>>, periodIndexById |-> EmptyMap,
   values |-> EmptyMap, rules |-> <<>>, nodeRegistry |-> <<>>,
   valueKeyToNodeId |-> EmptyMap, visiting |-> {}]

Becomes(fam) ==
  /\ accounts' = fam.accounts
  /\ periods' = fam.periods
  /\ periodIndexById' = fam.periodIndexById
  /\ values' = fam.values
  /\ rules' = fam.rules
  /\ nodeRegistry' = fam.nodeRegistry
  /\ valueKeyToNodeId' = fam.valueKeyToNodeId
  /\ visiting' = fam.visiting

Called(op, pre, err) ==
  [op |-> op, pre |-> pre, err |-> err, periodId |-> "", output |-> <<>>,
   log |-> <<>>, synthesized |-> FALSE]

Init ==
  /\ accounts = NewFam.accounts
  /\ periods = NewFam.periods
  /\ periodIndexById = NewFam.periodIndexById
  /\ values = NewFam.values
  /\ rules = NewFam.rules
  /\ nodeRegistry = NewFam.nodeRegistry
  /\ valueKeyToNodeId = NewFam.valueKeyToNodeId
  /\ visiting = NewFam.visiting
  /\ generator \in Generators
  /\ scenario \in Scenarios
  /\ last = Called("new", NewFam, "")
  /\ computes = 0
  /\ given = <<>>
  /\ derived = 0
  /\ clean = TRUE

SetAccounts ==
  \E r \in {setAccounts(Fam, ScenarioAccounts(scenario))} :
      /\ Becomes(r.fam)
      /\ last' = Called("setAccounts", Fam, r.err)
      /\ UNCHANGED <<generator, scenario, computes, given, derived, clean>>

SetPeriods ==
  \E list \in ScenarioPeriodLists(scenario) :
    \E r \in {setPeriods(Fam, list)} :
        /\ Becomes(r.fam)
        /\ last' = Called("setPeriods", Fam, r.err)
        /\ given' = list
        /\ derived' = 0
        /\ clean' = TRUE
        /\ UNCHANGED <<generator, scenario, computes>>

LoadInputData ==
  \E r \in {loadInputData(Fam, ScenarioInputs(scenario))} :
      /\ Becomes(r.fam)
      /\ last' = Called("loadInputData", Fam, r.err)
      /\ UNCHANGED <<generator, scenario, computes, given, derived, clean>>

SetRules ==
  \E list \in ScenarioRuleLists(scenario) :
    \E r \in {setRules(Fam, list)} :
        /\ Becomes(r.fam)
        /\ last' = Called("setRules", Fam, r.err)
        /\ UNCHANGED <<generator, scenario, computes, given, derived, clean>>

Compute ==
  /\ computes < (IF scenario = "Balance" THEN MaxBalanceComputes ELSE MaxComputes)
  /\ \E r \in {compute(generator, Fam)} :
         /\ Becomes(r.fam)
         /\ last' = [op |-> "compute", pre |-> Fam, err |-> r.err,
                     periodId |-> r.periodId, output |-> r.output,
                     log |-> r.log,
                     synthesized |-> r.periodId # "" /\ r.err # "MissingBaseProfit"]
         /\ derived' = derived + 1
         /\ clean' = (clean /\ r.err = "")
  /\ computes' = computes + 1
  /\ UNCHANGED <<generator, scenario, given>>

Next == SetAccounts \/ SetPeriods \/ LoadInputData \/ SetRules \/ Compute

Spec == Init /\ [][Next]_vars

(***************************************************************************)
(* The client of useFinancialModel on the balanced book: the engine is set *)
(* up once, in the order of the hook, and then carried forward year after  *)
(* year.                                                                   *)
(***************************************************************************)
InitBalance ==
  /\ accounts = NewFam.accounts
  /\ periods = NewFam.periods
  /\ periodIndexById = NewFam.periodIndexById
  /\ values = NewFam.values
  /\ rules = NewFam.rules
  /\ nodeRegistry = NewFam.nodeRegistry
  /\ valueKeyToNodeId = NewFam.valueKeyToNodeId
  /\ visiting = NewFam.visiting
  /\ generator \in Generators
  /\ scenario = "Balance"
  /\ last = Called("new", NewFam, "")
  /\ computes = 0
  /\ given = <<>>
  /\ derived = 0
  /\ clean = TRUE

HookSetAccounts == last.op = "new" /\ SetAccounts

HookSetPeriods == last.op = "setAccounts" /\ SetPeriods

HookLoadInputData == last.op = "setPeriods" /\ LoadInputData

HookSetRules == last.op = "loadInputData" /\ SetRules

HookCompute == last.op \in {"setRules", "compute"} /\ Compute

NextBalance ==
  HookSetAccounts \/ HookSetPeriods \/ HookLoadInputData \/ HookSetRules
    \/ HookCompute

SpecBalance == InitBalance /\ [][NextBalance]_vars

(***************************************************************************)
(* The client of ledgers that exercise the filters of the synthesizers,    *)
(* the errors of the engine and a table of years that end in December.     *)
(* It makes the calls of the engine in any order.                          *)
(***************************************************************************)
InitLedgers ==
  /\ accounts = NewFam.accounts
  /\ periods = NewFam.periods
  /\ periodIndexById = NewFam.periodIndexById
  /\ values = NewFam.values
  /\ rules = NewFam.rules
  /\ nodeRegistry = NewFam.nodeRegistry
  /\ valueKeyToNodeId = NewFam.valueKeyToNodeId
  /\ visiting = NewFam.visiting
  /\ generator \in Generators
  /\ scenario \in {"Flows", "Equity", "TwoProfits", "Proportionate", "S4",
                   "S4Profit", "December"}
  /\ last = Called("new", NewFam, "")
  /\ computes = 0
  /\ given = <<>>
  /\ derived = 0
  /\ clean = TRUE

SpecLedgers == InitLedgers /\ [][Next]_vars

(***************************************************************************)
(* The client of books that share a formula node, refer to a later        *)
(* period, share a flow account, compute an account from cash or load a   *)
(* batch that names what the tables do not hold.  It makes the calls of   *)
(* the engine in any order.                                                *)
(***************************************************************************)
InitBooks ==
  /\ accounts = NewFam.accounts
  /\ periods = NewFam.periods
  /\ periodIndexById = NewFam.periodIndexById
  /\ values = NewFam.values
  /\ rules = NewFam.rules
  /\ nodeRegistry = NewFam.nodeRegistry
  /\ valueKeyToNodeId = NewFam.valueKeyToNodeId
  /\ visiting = NewFam.visiting
  /\ generator \in Generators
  /\ scenario \in {"Doubled", "Forward", "Shared", "Pooled", "Partial"}
  /\ last = Called("new", NewFam, "")
  /\ computes = 0
  /\ given = <<>>
  /\ derived = 0
  /\ clean = TRUE

SpecBooks == InitBooks /\ [][Next]_vars

(***************************************************************************)
(* Properties of the builder.                                              *)
(***************************************************************************)
\* the calls of buildNodeForAccount, in the last compute(), for keys that
\* had a value in the store when compute() was called
StoredCalls ==
  IF last.op = "compute"
  THEN {i \in 1..Len(last.log) : last.log[i].key \in DOMAIN last.pre.values}
  ELSE {}

\* C1 (as amended): a call of buildNodeForAccount for a key that has a value
\* in the store, seeded or stored by an earlier compute, returns a leaf
\* whose value is the stored value rounded to two decimal places, whatever
\* rule the account has.
SeedPrecedenceRounded ==
  \A i \in StoredCalls :
    /\ nodeRegistry[last.log[i].id].type = "FF"
    /\ nodeRegistry[last.log[i].id].value =
         roundTo2Decimals(last.pre.values[last.log[i].key])

\* C1, witness: the account of a key with a stored value of three decimal
\* places has a rule, and the builder was called for the key
SeedPrecedenceWitness ==
  \E i \in StoredCalls :
    /\ roundTo2Decimals(last.pre.values[last.log[i].key]) #
         last.pre.values[last.log[i].key]
    /\ \E r \in 1..Len(rules) : \E q \in 1..Len(periods) :
         last.log[i].key = createValueKeyString(periods[q].id, rules[r].id)

\* C1 (as stated): the leaf holds exactly the stored value
SeedPrecedenceExact ==
  \A i \in StoredCalls :
    /\ nodeRegistry[last.log[i].id].type = "FF"
    /\ nodeRegistry[last.log[i].id].value = last.pre.values[last.log[i].key]

\* C2: within one compute(), all the calls of buildNodeForAccount for the
\* same (period, account) return the same NodeId, the one the memo table
\* holds for the key.
MemoizationEquality ==
  last.op = "compute" =>
    /\ \A i, j \in 1..Len(last.log) :
         last.log[i].key = last.log[j].key => last.log[i].id = last.log[j].id
    /\ \A i \in 1..Len(last.log) :
         /\ last.log[i].key \in DOMAIN valueKeyToNodeId
         /\ valueKeyToNodeId[last.log[i].key] = last.log[i].id

\* C2, witness: a key whose node is an operation was reached twice
MemoizationWitness ==
  /\ last.op = "compute"
  /\ \E i, j \in 1..Len(last.log) :
       /\ i < j
       /\ last.log[i].key = last.log[j].key
       /\ nodeRegistry[last.log[i].id].type = "TT"

(***************************************************************************)
(* The dependency relation induced by the rules and the period offsets,    *)
(* read off the rule table: a key of a period id p and an account id a     *)
(* depends on the keys its rule refers to, unless the key has a value in   *)
(* the store when compute() is called.                                     *)
(***************************************************************************)
Ref(id, has, offset) == [id |-> id, has |-> has, offset |-> offset]

RECURSIVE FormulaRefs(_)
FormulaRefs(formulaNode) ==
  CASE formulaNode.type = "ACCOUNT" ->
         {Ref(formulaNode.id, formulaNode.period.has, formulaNode.period.offset)}
    [] formulaNode.type = "BINARY_OP" ->
         FormulaRefs(formulaNode.left) \cup FormulaRefs(formulaNode.right)
    [] OTHER -> {}

RuleRefs(rule, accountId) ==
  CASE rule.type = "CALCULATION" -> FormulaRefs(rule.formulaNode)
    [] rule.type = "FIXED_VALUE" -> {Ref(accountId, TRUE, -1)}
    [] rule.type = "REFERENCE" -> {Ref(rule.ref, FALSE, 0)}
    [] rule.type = "PROPORTIONATE" ->
         {Ref(accountId, TRUE, -1), Ref(rule.ref, FALSE, 0), Ref(rule.ref, TRUE, -1)}
    [] rule.type = "GROWTH_RATE" -> {Ref(accountId, TRUE, -1)}
    [] rule.type = "PERCENTAGE" -> {Ref(rule.ref, FALSE, 0)}
    [] rule.type = "BALANCE_CHANGE" ->
         {Ref(accountId, TRUE, -1)} \cup
         {Ref(rule.flowAccounts[j].ref, FALSE, 0) :
            j \in 1..Len(rule.flowAccounts)}
    [] OTHER -> {}

Key(p, a) == [p |-> p, a |-> a]

\* the keys a reference made at period p names: none when the offset leaves
\* the period table
RefKeys(p, ref) ==
  IF ~ref.has THEN {Key(p, ref.id)}
  ELSE IF p \notin DOMAIN periodIndexById THEN {}
  ELSE LET target == periodIndexById[p] + ref.offset
       IN  IF target < 0 \/ target >= Len(periods) THEN {}
           ELSE {Key(periods[target + 1].id, ref.id)}

DependsOn(k) ==
  IF createValueKeyString(k.p, k.a) \in DOMAIN last.pre.values THEN {}
  ELSE IF ~HasId(rules, k.a) THEN {}
  ELSE UNION {RefKeys(k.p, ref) : ref \in RuleRefs(GetById(rules, k.a).rule, k.a)}

\* the keys the roots of the last compute() reach
RECURSIVE Reach(_)
Reach(S) ==
  CHOOSE R \in {IF T = S THEN S ELSE Reach(T) :
                  T \in {S \cup UNION {DependsOn(k) : k \in S}}} : TRUE

Roots == {Key(last.periodId, rules[r].id) : r \in 1..Len(rules)}

\* what is left of S when the keys that depend on none of it are taken
\* away again and again: empty exactly when S holds no cycle
RECURSIVE Peel(_)
Peel(S) ==
  CHOOSE R \in {IF T = S THEN S ELSE Peel(T) :
                  T \in {{k \in S : DependsOn(k) \cap S # {}}}} : TRUE

CycleFree == Peel(Reach(Roots)) = {}

\* the keys under construction when the last compute() ended
UnderConstruction ==
  {k \in Reach(Roots) : createValueKeyString(k.p, k.a) \in visiting}

\* C3 (as amended): a compute() that got past the synthesis succeeds only
\* if the dependency relation of the synthesized rules has no cycle within
\* reach of the new period's keys, and fails with Cycle only if it has one,
\* among the keys that are under construction at that moment.
Acyclicity ==
  (last.op = "compute" /\ last.synthesized) =>
    /\ last.err = "" => CycleFree
    /\ last.err = "Cycle" => (~CycleFree /\ Peel(UnderConstruction) # {})

\* C3, witness: a compute() on rules with a cycle reported it
AcyclicityWitness ==
  /\ last.op = "compute"
  /\ last.synthesized
  /\ last.err = "Cycle"
  /\ Peel(UnderConstruction) # {}

\* C3 (as stated): a compute() that got past the synthesis succeeds exactly
\* when there is no cycle
AcyclicityIff ==
  (last.op = "compute" /\ last.synthesized) => (last.err = "" <=> CycleFree)

(***************************************************************************)
(* Properties of compute().                                                *)
(***************************************************************************)
\* the engine a client gets from new SimpleFAM() and the four setters when
\* it hands them the accounts, periods, values and rules of fam
Fresh(fam) ==
  [NewFam EXCEPT !.accounts = fam.accounts,
                 !.periods = fam.periods,
                 !.periodIndexById = indexPeriods(EmptyMap, fam.periods, 1),
                 !.values = fam.values,
                 !.rules = fam.rules]

\* C4: a compute() call returns (or throws) and leaves what a compute()
\* call does on the fresh engine that holds the same accounts, periods,
\* values and rules; so any two calls made on equal accounts, periods,
\* values and rules return the same result map and leave the same engine.
Determinism ==
  last.op = "compute" =>
    \E ref \in {compute(generator, Fresh(last.pre))} :
      /\ last.err = ref.err
      /\ last.output = ref.output
      /\ Fam = ref.fam

\* C4, witness: a compute() call on an engine that differs from the fresh
\* one in the node table, the memo table and the keys under construction
DeterminismWitness ==
  /\ last.op = "compute"
  /\ last.pre.nodeRegistry # <<>>
  /\ last.pre.valueKeyToNodeId # EmptyMap
  /\ last.pre.visiting # {}
  /\ last.pre # Fresh(last.pre)

\* C5 (as stated): after a compute() whose synthesis succeeded, a second run
\* of the synthesizer on the accounts and rules it left succeeds and changes
\* neither table.
CfIdempotence ==
  (last.op = "compute" /\ last.synthesized) =>
    \E cf \in {CashFlowRules(generator, accounts, rules)} :
      /\ cf.err = ""
      /\ cf.accounts = accounts
      /\ cf.rules = rules

(***************************************************************************)
(* Properties of the period table.                                         *)
(***************************************************************************)
\* next is the period one year (ANNUAL) or one month (MONTHLY) after prev
Derived(prev, next) ==
  /\ next.periodType = prev.periodType
  /\ prev.periodType = "ANNUAL" =>
       (next.year = prev.year + 1 /\ next.month = prev.month)
  /\ prev.periodType = "MONTHLY" =>
       12 * next.year + next.month = 12 * prev.year + prev.month + 1
  /\ next.month \in 1..12
  /\ next.id = generatePeriodId(next.year, next.month, next.periodType)

\* the table is the list last given to setPeriods followed by one derived
\* period for each compute() made since
GivenThenDerived ==
  /\ Len(periods) = Len(given) + derived
  /\ SubSeq(periods, 1, Len(given)) = given
  /\ \A i \in (Len(given) + 1)..Len(periods) : Derived(periods[i - 1], periods[i])

\* the last position (from 0) of the table that holds the id
LastPosition(id) ==
  CHOOSE i \in 0..(Len(periods) - 1) :
    /\ periods[i + 1].id = id
    /\ \A j \in (i + 1)..(Len(periods) - 1) : periods[j + 1].id # id

Evaluated(a) ==
  LET id == valueKeyToNodeId[createValueKeyString(last.periodId, a)]
  IN  evalTopo(nodeRegistry, <<id>>).values[id]

Totals == {"assets_total", "equity_and_liabilities_total"}

\* C7 (as stated): after a successful compute(), the value stored and
\* returned for a total is the evaluated value rounded to the nearest
\* integer, halves away from zero (150000.49 gives 150000, 150000.50 gives
\* 150001), and for any other account the evaluated value rounded to two
\* decimal places (123.455 gives 123.46).
RoundingPolicy ==
  (last.op = "compute" /\ last.err = "") =>
    \A i \in 1..Len(last.output) :
      \E a \in {last.output[i].id} : \E v \in {last.output[i].value} :
        \E x \in {Evaluated(a)} :
          /\ values[createValueKeyString(last.periodId, a)] = v
          /\ a \in Totals => v = FInt(ToFixed(x, 0))
          /\ a \notin Totals => v = Dec(ToFixed(x, 2), 2)
          /\ (a \in Totals /\ x = Dec(15000049, 2)) => v = FInt(150000)
          /\ (a \in Totals /\ x = Dec(1500005, 1)) => v = FInt(150001)
          /\ (a \notin Totals /\ x = Dec(123455, 3)) => v = Dec(12346, 2)

\* the value compute() returned for account a
OutputValue(a) == GetById(last.output, a).value

\* the last call was a compute() on the engine a client sets up for the
\* scenario: its accounts, its one period, its inputs and its rules
ComputedFromSetup(sc) ==
  /\ last.op = "compute"
  /\ last.pre.accounts = sc.accounts
  /\ last.pre.periods = <<FY2024>>
  /\ last.pre.values = loadInputData(Fresh([accounts |-> sc.accounts,
                                            periods |-> <<FY2024>>,
                                            values |-> EmptyMap,
                                            rules |-> <<>>]),
                                     sc.inputs).fam.values
  /\ last.pre.rules \in sc.ruleLists

S1Returned ==
  /\ last.err = ""
  /\ last.periodId = FY2025.id
  /\ \A a \in {"unit_price", "quantity", "revenue", "cogs", "gross_profit"} :
       HasId(last.output, a)
  /\ OutputValue("unit_price") = FInt(1100)
  /\ OutputValue("quantity") = FInt(550)
  /\ OutputValue("revenue") = FInt(605000)
  /\ OutputValue("cogs") = FInt(363000)
  /\ OutputValue("gross_profit") = FInt(242000)

\* C8 (as amended): S1 with gross_profit marked as the base profit and a
\* cash account seeded 0.125: compute() succeeds and returns unit_price =
\* 1100, quantity = 550, revenue = 605000, cogs = 363000, gross_profit =
\* 242000, and for the synthesized rules cash_change_cf = 242000 and
\* cash = 242000.13.
ScenarioS1WithBaseProfit ==
  (scenario = "S1Cash" /\ ComputedFromSetup(Scenario("S1Cash"))) =>
    /\ S1Returned
    /\ OutputValue("cash_change_cf") = FInt(242000)
    /\ OutputValue("cash") = Dec(24200013, 2)

\* C8, witness: that compute() was made
ScenarioS1Witness ==
  /\ scenario = "S1Cash"
  /\ ComputedFromSetup(Scenario("S1Cash"))
  /\ last.err = ""

\* C8 (as stated): S1 with its five accounts alone: compute() succeeds and
\* returns the five values
ScenarioS1AsWritten ==
  (scenario = "S1" /\ ComputedFromSetup(Scenario("S1"))) => S1Returned

(***************************************************************************)
(* The cash flow identity, on the stored values of the new period counted  *)
(* in hundredths.                                                          *)
(***************************************************************************)
\* the stored value of account a at period p in hundredths, 0 if none
Cents(p, a) ==
  IF createValueKeyString(p, a) \in DOMAIN values
  THEN ToFixed(values[createValueKeyString(p, a)], 2)
  ELSE 0

\* the derived accounts: x_cf_adj and x_cf_wc for an account x
IsDerived(id) ==
  \E j \in 1..Len(accounts) :
    id = accounts[j].id \o "_cf_adj" \/ id = accounts[j].id \o "_cf_wc"

RECURSIVE DerivedCents(_)
DerivedCents(i) ==
  IF i > Len(accounts) THEN 0
  ELSE (IF IsDerived(accounts[i].id) THEN Cents(last.periodId, accounts[i].id)
        ELSE 0) + DerivedCents(i + 1)

BaseProfitCents ==
  LET b == CHOOSE i \in 1..Len(accounts) : accounts[i].isCfBaseProfit
  IN  Cents(last.periodId, accounts[b].id)

\* cash_change_cf less the base profit and the derived accounts
CfIdentityGap ==
  Cents(last.periodId, "cash_change_cf") - (BaseProfitCents + DerivedCents(1))

\* the same for S5, from the accounts the derived ones stand for
S5Gap ==
  LET new  == last.periodId
      prev == periods[Len(periods) - 1].id
  IN  Cents(new, "cash_change_cf") -
        (Cents(new, "net_income") + Cents(new, "depreciation")
           - Cents(new, "capex")
           - (Cents(new, "account_receivable") - Cents(prev, "account_receivable")))

\* the last compute() was one of S5 and the period before the new one has
\* a stored account_receivable
S5Computed ==
  /\ scenario = "S5"
  /\ createValueKeyString(periods[Len(periods) - 1].id, "account_receivable")
       \in DOMAIN values

\* C9 (as stated): the stored value of cash_change_cf equals the stored
\* base profit plus the stored derived accounts, and in S5 net_income +
\* depreciation - capex - the change of account_receivable
CfIdentityExact ==
  (last.op = "compute" /\ last.err = "") =>
    /\ CfIdentityGap = 0
    /\ S5Computed => S5Gap = 0

(***************************************************************************)
(* The balance of the book.                                                *)
(***************************************************************************)
\* the sum of the values the client seeded for these accounts
RECURSIVE SeededSum(_, _)
SeededSum(inputs, ids) ==
  IF inputs = <<>> THEN FZero
  ELSE IF Head(inputs).accountId \in ids
       THEN FAdd(Head(inputs).value, SeededSum(Tail(inputs), ids))
       ELSE SeededSum(Tail(inputs), ids)

\* the book the client seeded balances: the two totals are equal, and each
\* is the sum of its components
SeededBookBalances ==
  LET inputs == ScenarioInputs(scenario)
      assets == SeededSum(inputs, {"cash", "account_receivable", "tangible_assets"})
      claims == SeededSum(inputs, {"account_payable", "retained_earnings"})
  IN  /\ SeededSum(inputs, {"assets_total"}) = assets
      /\ SeededSum(inputs, {"equity_and_liabilities_total"}) = claims
      /\ assets = claims

\* the stored assets_total of the new period less the stored
\* equity_and_liabilities_total
BalanceGap ==
  FSub(getValue(Fam, last.periodId, "assets_total").value,
       getValue(Fam, last.periodId, "equity_and_liabilities_total").value)

\* C10 (as stated): on the balanced book, after every compute() that
\* returns, the stored assets_total and equity_and_liabilities_total of the
\* new period differ by at most 1.0
BalanceIdentity ==
  (scenario = "Balance" /\ SeededBookBalances /\ last.op = "compute"
     /\ last.err = "") =>
    ~FLess(FInt(1), FAbs(BalanceGap))

(***************************************************************************)
(* Properties of the rule synthesis, on the tables compute() was called on *)
(* (last.pre) and the tables it left.                                      *)
(***************************************************************************)
\* the synthesizer of the last compute() ran to its end
Synthesized == last.op = "compute" /\ last.synthesized

\* the positions, among the accounts given, of those whose rule is a
\* BALANCE_CHANGE
BalanceChanged ==
  {i \in 1..Len(last.pre.accounts) :
     /\ HasId(last.pre.rules, last.pre.accounts[i].id)
     /\ GetById(last.pre.rules, last.pre.accounts[i].id).rule.type =
          "BALANCE_CHANGE"}

\* the flows of the account at position i
FlowsOf(i) == GetById(last.pre.rules, last.pre.accounts[i].id).rule.flowAccounts

\* all the flows of those rules, each as [a, j]: flow j of the account at a
AllFlows ==
  UNION {{[a |-> i, j |-> j] : j \in 1..Len(FlowsOf(i))} : i \in BalanceChanged}

FlowAt(x) == FlowsOf(x.a)[x.j]

\* the flows steps B and C treat: the flow account exists, its sheet type
\* is none of BS, CF and none, and it is not the base profit
AdjustedFlows ==
  {x \in AllFlows :
     /\ HasId(last.pre.accounts, FlowAt(x).ref)
     /\ GetById(last.pre.accounts, FlowAt(x).ref).fs_type \notin {"BS", "CF", "null"}
     /\ ~GetById(last.pre.accounts, FlowAt(x).ref).isCfBaseProfit}

\* the sign of the adjustment of flow x
CfSign(x) ==
  (IF last.pre.accounts[x.a].isCredit THEN 1 ELSE -1) *
  (IF FlowAt(x).sign = "PLUS" THEN 1 ELSE -1)

\* the account id is a derived account of the table: CF, ignored for CF
IsCfAccount(id) ==
  /\ HasId(accounts, id)
  /\ GetById(accounts, id).fs_type = "CF"
  /\ GetById(accounts, id).ignoredForCf

\* C11 (as stated): after a synthesis, every flow of a BALANCE_CHANGE rule
\* whose flow account exists, has a sheet type other than BS, CF and none
\* and is not the base profit has the rule ref_cf_adj = ref * cf_sign, with
\* cf_sign = (+1 for a credit account, else -1) * (+1 for PLUS, else -1),
\* and an account ref_cf_adj that is CF and ignored for CF; the rule
\* ref_cf_adj of any other flow is as it was.
CfAdjustments ==
  Synthesized =>
    /\ \A x \in AdjustedFlows :
         \E id \in {FlowAt(x).ref \o "_cf_adj"} :
           /\ HasId(rules, id)
           /\ GetById(rules, id).rule \in
                {Calculation(Bin("MUL", Acc(FlowAt(x).ref), Num(FInt(CfSign(x))))),
                 Calculation(Bin("MUL", AccAt(FlowAt(x).ref, 0),
                                 Num(FInt(CfSign(x)))))}
           /\ IsCfAccount(id)
    /\ \A x \in AllFlows :
         (\A y \in AdjustedFlows : FlowAt(y).ref # FlowAt(x).ref) =>
           RuleOf(rules, FlowAt(x).ref \o "_cf_adj") =
             RuleOf(last.pre.rules, FlowAt(x).ref \o "_cf_adj")

\* the positions of the accounts step D treats: BS, neither the cash
\* account nor ignored for CF, and with a rule that is no BALANCE_CHANGE
WorkingCapitalAccounts ==
  {i \in 1..Len(last.pre.accounts) :
     /\ last.pre.accounts[i].fs_type = "BS"
     /\ ~last.pre.accounts[i].isCashAccount
     /\ ~last.pre.accounts[i].ignoredForCf
     /\ i \notin BalanceChanged}

\* (a - a at the previous period) * sign, a written with or without the
\* offset 0
WorkingCapitalRules(a, sign) ==
  {Calculation(Bin("MUL", Bin("SUB", this, AccAt(a, -1)), Num(FInt(sign)))) :
     this \in {Acc(a), AccAt(a, 0)}}

\* C12 (as stated): after a synthesis, exactly the accounts that are BS,
\* not the cash account, not ignored for CF and without a BALANCE_CHANGE
\* rule have the rule id_cf_wc = (id - id at the previous period) * sign,
\* sign = +1 for a credit account and -1 otherwise; the rule id_cf_wc of
\* any other account is as it was.
WorkingCapital ==
  Synthesized =>
    \A i \in 1..Len(last.pre.accounts) :
      \E a \in {last.pre.accounts[i]} :
        IF i \in WorkingCapitalAccounts
        THEN /\ HasId(rules, a.id \o "_cf_wc")
             /\ GetById(rules, a.id \o "_cf_wc").rule \in
                  WorkingCapitalRules(a.id, IF a.isCredit THEN 1 ELSE -1)
        ELSE RuleOf(rules, a.id \o "_cf_wc") =
               RuleOf(last.pre.rules, a.id \o "_cf_wc")

\* the key of account a at the period the last compute() appended, and at
\* the period before it
NewKey(a) == createValueKeyString(last.periodId, a)

PreviousKey(a) == createValueKeyString(periods[Len(periods) - 1].id, a)

\* after a synthesis the rule of cash is BALANCE_CHANGE[+cash_change_cf]
CashRuleLinked ==
  Synthesized =>
    RuleOf(rules, "cash") =
      [has |-> TRUE, rule |-> BalanceChange(<<Flow("cash_change_cf", "PLUS")>>)]

\* C13 (as amended): after every synthesis rules[cash] is BALANCE_CHANGE
\* with the one flow +cash_change_cf, whatever it was before; and after a
\* compute() that returned, unless the store already held cash for the new
\* period, the node of cash at the new period adds the node of cash at the
\* previous period (a leaf of the stored value rounded to two decimals,
\* when there is one) and the node of cash_change_cf at the new period,
\* and the stored cash and cash_change_cf are the values of these nodes
\* rounded to two decimals.
CashLinkage ==
  /\ CashRuleLinked
  /\ (last.op = "compute" /\ last.err = ""
        /\ NewKey("cash") \notin DOMAIN last.pre.values) =>
       \E id \in {valueKeyToNodeId[NewKey("cash")]} :
         \E v \in {evalTopo(nodeRegistry, <<id>>).values} :
           /\ nodeRegistry[id] =
                [type |-> "TT", ref1 |-> valueKeyToNodeId[PreviousKey("cash")],
                 ref2 |-> valueKeyToNodeId[NewKey("cash_change_cf")],
                 operator |-> "ADD"]
           /\ v[id] = FAdd(v[nodeRegistry[id].ref1], v[nodeRegistry[id].ref2])
           /\ values[NewKey("cash")] = roundTo2Decimals(v[id])
           /\ values[NewKey("cash_change_cf")] =
                roundTo2Decimals(v[nodeRegistry[id].ref2])
           /\ PreviousKey("cash") \in DOMAIN last.pre.values =>
                v[nodeRegistry[id].ref1] =
                  roundTo2Decimals(last.pre.values[PreviousKey("cash")])

\* C13, witness: a compute() returned on rules in which the client had
\* given cash a rule of its own, with a stored cash of three decimals at
\* the previous period
CashLinkageWitness ==
  /\ last.op = "compute"
  /\ last.err = ""
  /\ NewKey("cash") \notin DOMAIN last.pre.values
  /\ RuleOf(last.pre.rules, "cash") = [has |-> TRUE, rule |-> Input(FInt(7))]
  /\ PreviousKey("cash") \in DOMAIN last.pre.values
  /\ roundTo2Decimals(last.pre.values[PreviousKey("cash")]) #
       last.pre.values[PreviousKey("cash")]

\* C13 (as stated): the rule of cash is BALANCE_CHANGE[+cash_change_cf]
\* and the computed cash of the new period is the stored cash of the
\* previous period plus the cash_change_cf of the new period
CashLinkageExact ==
  /\ CashRuleLinked
  /\ (last.op = "compute" /\ last.err = ""
        /\ PreviousKey("cash") \in DOMAIN last.pre.values) =>
       values[NewKey("cash")] =
         FAdd(last.pre.values[PreviousKey("cash")], values[NewKey("cash_change_cf")])

\* the number of accounts flagged as the base profit when compute() was
\* called
BaseProfits ==
  Cardinality({i \in 1..Len(last.pre.accounts) :
                 last.pre.accounts[i].isCfBaseProfit})

\* C14 (as stated): a compute() that reaches the synthesis gets past it
\* exactly when one account, and only one, is flagged as the base profit;
\* with none and with more than one the synthesis fails and compute() with
\* it.
BaseProfitUnique ==
  (last.op = "compute" /\ last.periodId # "") =>
    /\ last.synthesized <=> BaseProfits = 1
    /\ BaseProfits # 1 => last.err # ""

\* the rule of baseProfit_cf refers to an account flagged as the base
\* profit
BaseProfitMirrored ==
  \E i \in 1..Len(accounts) :
    /\ accounts[i].isCfBaseProfit
    /\ RuleOf(rules, "baseProfit_cf") =
         [has |-> TRUE, rule |-> [type |-> "REFERENCE", ref |-> accounts[i].id]]

\* C15 (as stated): after a compute() that returned, the accounts of the
\* engine (what getAllAccounts returns) hold a CF account, ignored for CF,
\* for baseProfit_cf, for cash_change_cf and for every rule x_cf_adj and
\* x_cf_wc the synthesis made, and the rule of baseProfit_cf is a reference
\* to the base profit.
DerivedAccountsExist ==
  (last.op = "compute" /\ last.err = "") =>
    /\ IsCfAccount("baseProfit_cf")
    /\ IsCfAccount("cash_change_cf")
    /\ \A id \in {FlowAt(x).ref \o "_cf_adj" : x \in AdjustedFlows} \cup
                  {last.pre.accounts[i].id \o "_cf_wc" : i \in WorkingCapitalAccounts} :
         HasId(rules, id) => IsCfAccount(id)
    /\ BaseProfitMirrored

(***************************************************************************)
(* Properties of the errors of compute().                                  *)
(***************************************************************************)
\* C16 (as stated): a compute() called while the period table or the rule
\* table is empty fails with NotConfigured and leaves the engine as it
\* was.
NotConfigured ==
  (last.op = "compute" /\ (last.pre.periods = <<>> \/ last.pre.rules = <<>>)) =>
    /\ last.err = "NotConfigured"
    /\ Fam = last.pre

\* the nodes of the tree under a node, the node included
RECURSIVE Below(_, _)
Below(reg, id) ==
  IF reg[id].type = "TT"
  THEN {id} \cup Below(reg, reg[id].ref1) \cup Below(reg, reg[id].ref2)
  ELSE {id}

\* what stands for the value of a tree that has none
Undefined == [s |-> 0, m |-> <<>>, e |-> 0]

\* the value an operator gives two values, Undefined where it gives none
Applied(operator, l, r) ==
  IF l = Undefined \/ r = Undefined THEN Undefined
  ELSE CASE operator = "ADD" -> FAdd(l, r)
         [] operator = "SUB" -> FSub(l, r)
         [] operator = "MUL" -> FMul(l, r)
         [] operator = "DIV" -> IF r = FZero THEN Undefined ELSE FDiv(l, r)
         [] OTHER -> Undefined

\* the value of the tree under a node
RECURSIVE TreeValue(_, _)
TreeValue(reg, id) ==
  IF reg[id].type = "FF" THEN reg[id].value
  ELSE Applied(reg[id].operator, TreeValue(reg, reg[id].ref1),
               TreeValue(reg, reg[id].ref2))

\* a DIV node whose right operand evaluates to 0
DivByZeroAt(reg, id) ==
  /\ reg[id].type = "TT"
  /\ reg[id].operator = "DIV"
  /\ TreeValue(reg, reg[id].ref2) = FZero

\* the nodes the roots of the last compute() stand on: the nodes of the
\* keys it stored a value for
StoredRoots ==
  {valueKeyToNodeId[k] : k \in (DOMAIN values \ DOMAIN last.pre.values)
                                  \cap DOMAIN valueKeyToNodeId}

\* the root the last compute() built last
LastRoot == last.log[Len(last.log)].id

\* C17: the evaluation of a tree of the registry fails exactly when some
\* DIV node of the tree has a right operand that evaluates to 0, and then
\* with the division-by-zero error; a tree without such a node evaluates,
\* whatever its ADD, SUB and MUL nodes, to the value of its operators.  A
\* compute() that fails with the division-by-zero error built such a tree
\* last, and no tree it stored the value of holds such a node.
DivisionByZero ==
  /\ \A id \in 1..Len(nodeRegistry) :
       \E v \in {evalTopo(nodeRegistry, <<id>>)} :
         IF \E n \in Below(nodeRegistry, id) : DivByZeroAt(nodeRegistry, n)
         THEN v.err = "DivisionByZero"
         ELSE v.err = "" /\ v.values[id] = TreeValue(nodeRegistry, id)
  /\ (last.op = "compute" /\ last.err = "DivisionByZero") =>
       /\ last.log # <<>>
       /\ \E n \in Below(nodeRegistry, LastRoot) : DivByZeroAt(nodeRegistry, n)
  /\ (last.op = "compute" /\ last.periodId # "") =>
       \A root \in StoredRoots : \A n \in Below(nodeRegistry, root) :
         ~DivByZeroAt(nodeRegistry, n)

\* a compute() failed on a Proportionate rule whose driver was 0 in the
\* previous period
DivisionByZeroWitness ==
  /\ last.op = "compute"
  /\ last.err = "DivisionByZero"
  /\ \E i \in 1..Len(rules) :
       /\ rules[i].rule.type = "PROPORTIONATE"
       /\ valueKeyToNodeId[createValueKeyString(last.periodId, rules[i].id)] = LastRoot
       /\ last.pre.values[createValueKeyString(
             last.pre.periods[Len(last.pre.periods)].id, rules[i].rule.ref)] = FZero

\* what a build reads of the engine, and a builder that has built nothing
Engine ==
  [periods |-> periods, periodIndexById |-> periodIndexById,
   values |-> values, rules |-> rules]

NewBuilder ==
  [reg |-> <<>>, memo |-> EmptyMap, visiting |-> {}, err |-> "", log |-> <<>>]

\* the accounts a key can name: those of the account table, those with a
\* rule and those a rule refers to
KeyAccounts ==
  {accounts[i].id : i \in 1..Len(accounts)}
    \cup {rules[i].id : i \in 1..Len(rules)}
    \cup UNION {{ref.id : ref \in RuleRefs(rules[i].rule, rules[i].id)} :
                 i \in 1..Len(rules)}

Keys == {Key(periods[i].id, a) : i \in 1..Len(periods), a \in KeyAccounts}

Stored(k) == createValueKeyString(k.p, k.a) \in DOMAIN values

\* a key that has neither a stored value nor a rule
Unruled(k) == ~Stored(k) /\ ~HasId(rules, k.a)

\* the keys the build of a key asks for
Needs(k) ==
  IF Stored(k) \/ ~HasId(rules, k.a) THEN {}
  ELSE UNION {RefKeys(k.p, ref) : ref \in RuleRefs(GetById(rules, k.a).rule, k.a)}

RECURSIVE Needed(_)
Needed(S) ==
  CHOOSE R \in {IF T = S THEN S ELSE Needed(T) :
                  T \in {S \cup UNION {Needs(k) : k \in S}}} : TRUE

\* C18: the build of a key that has neither a stored value nor a rule
\* fails with the missing-rule error; the build of a key that has a stored
\* value gives the leaf of that value, rule or no rule; and a build fails
\* with the missing-rule error only if the key, or a key its rules make it
\* ask for, has neither.  So a compute() that succeeds met no such key and
\* one that fails with the missing-rule error met one.
MissingRule ==
  /\ \A k \in Keys :
       \E r \in {buildNodeForAccount(Engine, NewBuilder, k.p, k.a)} :
         /\ Unruled(k) => r.st.err = "MissingRule"
         /\ Stored(k) =>
              /\ r.st.err = ""
              /\ r.st.reg = <<[type |-> "FF",
                               value |-> roundTo2Decimals(
                                 values[createValueKeyString(k.p, k.a)])]>>
         /\ r.st.err = "MissingRule" => \E n \in Needed({k}) : Unruled(n)
  /\ (last.op = "compute" /\ last.synthesized) =>
       \E U \in {{k \in Reach(Roots) :
                    /\ createValueKeyString(k.p, k.a) \notin DOMAIN last.pre.values
                    /\ ~HasId(rules, k.a)}} :
         /\ last.err = "" => U = {}
         /\ last.err = "MissingRule" => U # {}

\* a compute() failed for a key without value or rule after it had made
\* the leaf of a key that has a value and no rule
MissingRuleWitness ==
  /\ last.op = "compute"
  /\ last.err = "MissingRule"
  /\ \E k \in Reach(Roots) : Unruled(k)
  /\ \E k \in Keys : Stored(k) /\ ~HasId(rules, k.a)

\* the keys within reach of the roots of the last compute() whose rule
\* refers to a period the table does not hold
OutOfRange ==
  {k \in Reach(Roots) :
     /\ createValueKeyString(k.p, k.a) \notin DOMAIN last.pre.values
     /\ HasId(rules, k.a)
     /\ \E ref \in RuleRefs(GetById(rules, k.a).rule, k.a) :
          ref.has /\ RefKeys(k.p, ref) = {}}

\* the last operation was a compute() on a table of one period whose first
\* rule is a growth rate for an account without a value
SinglePeriodGrowth ==
  /\ last.op = "compute"
  /\ Len(last.pre.periods) = 1
  /\ last.pre.rules # <<>>
  /\ last.pre.rules[1].rule.type = "GROWTH_RATE"
  /\ \A k \in DOMAIN last.pre.values :
       \A i \in 1..Len(periods) :
         k # createValueKeyString(periods[i].id, last.pre.rules[1].id)

\* C19 (as amended): a lookup of a period at an offset from a period of the
\* table fails with the period-out-of-range error exactly when the index of
\* the base plus the offset is outside [0, number of periods), and gives
\* the period at that index otherwise; a compute() that succeeds met no
\* such reference and one that fails with this error met one; and a
\* compute() on a table of one period whose first rule is a growth rate
\* for an account without a value fails with this error, provided the
\* synthesis found a base-profit account.
PeriodOutOfRange ==
  /\ \A i \in 1..Len(periods) : \A offset \in (0 - Len(periods))..Len(periods) :
       \E r \in {findPeriodByOffset(Engine, periods[i].id, offset)} :
       \E t \in {periodIndexById[periods[i].id] + offset} :
         IF t < 0 \/ t >= Len(periods)
         THEN r.err = "PeriodOutOfRange"
         ELSE r.err = "" /\ r.id = periods[t + 1].id
  /\ (last.op = "compute" /\ last.synthesized) =>
       /\ last.err = "" => OutOfRange = {}
       /\ last.err = "PeriodOutOfRange" => OutOfRange # {}
  /\ (SinglePeriodGrowth /\ last.synthesized) => last.err = "PeriodOutOfRange"

\* the compute() of the ledger of scenario S4 with a base-profit account
\* failed on the growth rate of x
PeriodOutOfRangeWitness ==
  /\ SinglePeriodGrowth
  /\ last.synthesized
  /\ last.err = "PeriodOutOfRange"
  /\ Key(last.pre.periods[1].id, last.pre.rules[1].id) \in OutOfRange

\* C19 (as stated): a compute() on a table of one period whose first rule
\* is a growth rate for an account without a value fails with the
\* period-out-of-range error
PeriodOutOfRangeAsWritten ==
  SinglePeriodGrowth => last.err = "PeriodOutOfRange"

(***************************************************************************)
(* Properties of the period compute() appends.                             *)
(***************************************************************************)
\* the last period of the table compute() was called on, and the period
\* it appended
Latest == last.pre.periods[Len(last.pre.periods)]

Appended == periods[Len(periods)]

\* the fields of the appended period that do not depend on the fiscal
\* year end
NextYearAndMonth ==
  IF Latest.periodType = "ANNUAL"
  THEN /\ Appended.year = Latest.year + 1
       /\ Appended.month = Latest.month
       /\ Appended.fiscalYear = Latest.fiscalYear + 1
       /\ Appended.periodType = "ANNUAL"
  ELSE /\ Appended.periodType = "MONTHLY"
       /\ IF Latest.month = 12
          THEN Appended.month = 1 /\ Appended.year = Latest.year + 1
          ELSE Appended.month = Latest.month + 1 /\ Appended.year = Latest.year

Increases ==
  /\ Appended.month \in 1..12
  /\ \/ Appended.year > Latest.year
     \/ Appended.year = Latest.year /\ Appended.month > Latest.month

\* C20 (as stated): the period compute() appends has, for ANNUAL, the year
\* after the latest one, its month, the fiscal year after its fiscal year
\* and is a fiscal year end; for MONTHLY, the month after the latest one,
\* wrapping from 12 to 1 into the next year; its month is within 1..12 and
\* its (year, month) is later than that of the latest period.
NextPeriodDerivation ==
  (last.op = "compute" /\ last.periodId # "") =>
    /\ Len(periods) = Len(last.pre.periods) + 1
    /\ NextYearAndMonth
    /\ Latest.periodType = "ANNUAL" => Appended.isFiscalYearEnd
    /\ Increases

(***************************************************************************)
(* Properties of the loop of compute() over the keys of the rules.         *)
(***************************************************************************)
\* the engine the loop of the last compute() started on
LoopStart ==
  [Fam EXCEPT !.nodeRegistry = <<>>, !.valueKeyToNodeId = EmptyMap,
              !.visiting = {}, !.values = last.pre.values]

\* the loop of compute() on that engine, taking the keys in the order of
\* the list keys: [b, values, output, err]
LoopOver(keys) ==
  computeAccounts(LoopStart,
                  [b |-> NewBuilder, values |-> last.pre.values,
                   output |-> <<>>, err |-> ""],
                  last.periodId, keys, 1, Len(keys))

\* a list with the entries at i and j exchanged, and a list backwards
Exchanged(list, i, j) ==
  [n \in 1..Len(list) |-> IF n = i THEN list[j] ELSE IF n = j THEN list[i]
                                                 ELSE list[n]]

Backwards(list) == [n \in 1..Len(list) |-> list[Len(list) + 1 - n]]

\* iteration orders of the keys of the rules
Orders ==
  {Backwards(rules)} \cup
  {Exchanged(rules, i, j) : i \in 1..Len(rules), j \in 1..Len(rules)}

\* a result as the map it is
ResultMap(output) == {<<output[n].id, output[n].value>> : n \in 1..Len(output)}

\* C21 (as stated): whatever the order in which the loop of compute() takes
\* the keys of the rules, the call ends the same way (returns or throws),
\* returns the same result map and leaves the same value store.
RuleKeyOrder ==
  Synthesized =>
    \A keys \in Orders : \E c \in {LoopOver(keys)} :
      /\ (c.err = "") = (last.err = "")
      /\ c.err = "" => ResultMap(c.output) = ResultMap(last.output)
      /\ c.values = values

(***************************************************************************)
(* Properties of the topological sort.                                     *)
(***************************************************************************)
Position(list, x) == CHOOSE n \in 1..Len(list) : list[n] = x

IsLeaf(id) == nodeRegistry[id].type = "FF"

\* the nodes under a root in the order the walk of topoSort reaches them
\* first: a node, then what is under ref1, then what is under ref2
Walk(root) == visitRoots(nodeRegistry, <<>>, <<root>>)

SortedFrom(root) == topoSort(nodeRegistry, <<root>>).sorted

\* the place in the order of the child an operation node waits for longest
ReadyAt(order, id) ==
  IF Position(order, nodeRegistry[id].ref1) > Position(order, nodeRegistry[id].ref2)
  THEN Position(order, nodeRegistry[id].ref1)
  ELSE Position(order, nodeRegistry[id].ref2)

\* C22 (as amended): the order of the topological sort starts with the
\* leaves, in the order the walk from the root reaches them, and goes on
\* with the operation nodes in the order they become ready; of two
\* operation nodes that become ready at the same time the one the walk
\* reaches first comes first.
TieBreak ==
  \A root \in 1..Len(nodeRegistry) :
    \E order \in {SortedFrom(root)} : \E walk \in {Walk(root)} :
      /\ SelectSeq(order, IsLeaf) = SelectSeq(walk, IsLeaf)
      /\ \A i \in 1..Len(order) : \A j \in (i + 1)..Len(order) :
           /\ IsLeaf(order[j]) => IsLeaf(order[i])
           /\ (~IsLeaf(order[i]) /\ ~IsLeaf(order[j])) =>
                \/ ReadyAt(order, order[i]) < ReadyAt(order, order[j])
                \/ /\ ReadyAt(order, order[i]) = ReadyAt(order, order[j])
                   /\ Position(walk, order[i]) < Position(walk, order[j])

\* a tree whose walk reaches a leaf made for an earlier key after a leaf
\* made later
TieBreakWitness ==
  \E root \in 1..Len(nodeRegistry) :
    \E order \in {SortedFrom(root)} :
      \E i \in 1..Len(order) : \E j \in (i + 1)..Len(order) :
        IsLeaf(order[i]) /\ IsLeaf(order[j]) /\ order[i] > order[j]

\* C22 (as stated): of two nodes that are ready at the same time, the
\* leaves that seed the queue in particular, the one with the smaller
\* NodeId comes first in the order of the topological sort
TieBreakByNodeId ==
  \A root \in 1..Len(nodeRegistry) :
    \E order \in {SortedFrom(root)} :
      \A i \in 1..Len(order) : \A j \in (i + 1)..Len(order) :
        (IsLeaf(order[i]) /\ IsLeaf(order[j])) => order[i] < order[j]

\* C23: for every node of the registry a compute() leaves, the
\* topological sort from that node succeeds and gives exactly the nodes
\* under it, each once, every operation node after both its children, and
\* the evaluation from that node finds the value of every child: it fails,
\* if it does, with the division-by-zero error only.
TopologicalEvaluation ==
  last.op = "compute" =>
  \A root \in 1..Len(nodeRegistry) :
    \E t \in {topoSort(nodeRegistry, <<root>>)} :
      /\ t.err = ""
      /\ {t.sorted[n] : n \in 1..Len(t.sorted)} = Below(nodeRegistry, root)
      /\ Len(t.sorted) = Cardinality(Below(nodeRegistry, root))
      /\ \A n \in 1..Len(t.sorted) : \E id \in {t.sorted[n]} :
           ~IsLeaf(id) =>
             /\ \E m \in 1..(n - 1) : t.sorted[m] = nodeRegistry[id].ref1
             /\ \E m \in 1..(n - 1) : t.sorted[m] = nodeRegistry[id].ref2
      /\ evalTopo(nodeRegistry, <<root>>).err \in {"", "DivisionByZero"}

\* a compute() returned the value of an operation node whose two children
\* are one node
TopologicalEvaluationWitness ==
  /\ last.op = "compute"
  /\ last.err = ""
  /\ \E root \in StoredRoots :
       /\ ~IsLeaf(root)
       /\ nodeRegistry[root].ref1 = nodeRegistry[root].ref2
       /\ Len(SortedFrom(root)) = Cardinality(Below(nodeRegistry, root))

(***************************************************************************)
(* Properties of the work compute() does.                                  *)
(***************************************************************************)
\* the nodes a formula adds to the registry by itself: one for every
\* number and every operation, none for a reference to an account
RECURSIVE FormulaNodes(_)
FormulaNodes(formulaNode) ==
  CASE formulaNode.type = "NUMBER" -> 1
    [] formulaNode.type = "BINARY_OP" ->
         1 + FormulaNodes(formulaNode.left) + FormulaNodes(formulaNode.right)
    [] OTHER -> 0

\* the nodes the handler of a rule adds by itself
RuleNodes(rule, accountId) ==
  CASE rule.type = "INPUT" -> 1
    [] rule.type \in {"FIXED_VALUE", "REFERENCE"} -> 0
    [] OTHER -> FormulaNodes(HandlerFormula(rule, accountId))

\* the nodes the build of a key adds by itself when it is done once
NodesOfKey(k) ==
  IF createValueKeyString(k.p, k.a) \in DOMAIN last.pre.values THEN 1
  ELSE IF ~HasId(rules, k.a) THEN 0
  ELSE RuleNodes(GetById(rules, k.a).rule, k.a)

RECURSIVE NodesOfKeys(_)
NodesOfKeys(S) ==
  IF S = {} THEN 0
  ELSE LET k == CHOOSE x \in S : TRUE
       IN  NodesOfKey(k) + NodesOfKeys(S \ {k})

\* the keys the last compute() built a node for, and those it left under
\* construction
BuiltKeys ==
  {k \in Keys : createValueKeyString(k.p, k.a) \in DOMAIN valueKeyToNodeId}

OpenKeys == {k \in Keys : createValueKeyString(k.p, k.a) \in visiting}

\* the queue loop of topoSort from a root, run for as many turns as there
\* are nodes under the root
KahnLoop(root) ==
  LET nodes == Walk(root)
      ids   == {nodes[n] : n \in 1..Len(nodes)}
      inDegree == [id \in ids |-> IF IsLeaf(id) THEN 0 ELSE 2]
  IN  queueLoop([id \in ids |-> childrenOf(nodeRegistry, nodes, id, 1, Len(nodes))],
                [queue |-> SelectSeq(nodes, IsLeaf), sorted |-> <<>>,
                 inDegree |-> inDegree],
                Len(nodes))

\* C24: compute() ends, with a result or with an error, after a bounded
\* amount of work: every key of the memo table and every key under
\* construction is a key of a period of the table, the node registry
\* holds no more nodes than the rules of these keys add when each is
\* built once, and exactly as many when the build was completed; and the
\* queue loop of the sort, from any node, has taken every node under it and
\* emptied its queue after as many turns as there are nodes.
Termination ==
  /\ (last.op = "compute" /\ last.periodId # "") =>
       /\ DOMAIN valueKeyToNodeId \cup visiting
            \subseteq {createValueKeyString(k.p, k.a) : k \in Keys}
       /\ BuiltKeys \cap OpenKeys = {}
       /\ Len(nodeRegistry) <= NodesOfKeys(BuiltKeys \cup OpenKeys)
       /\ last.err \in {"", "DivisionByZero"} =>
            /\ OpenKeys = {}
            /\ Len(nodeRegistry) = NodesOfKeys(BuiltKeys)
       /\ last.err = "" =>
            \A r \in 1..Len(rules) :
              \E n \in 1..Len(last.output) : last.output[n].id = rules[r].id
  /\ last.op = "compute" =>
     \A root \in 1..Len(nodeRegistry) :
       \E k \in {KahnLoop(root)} :
         /\ k.queue = <<>>
         /\ Len(k.sorted) = Cardinality(Below(nodeRegistry, root))

\* a compute() ended with the cycle error on rules that refer to a later
\* and to an earlier period
TerminationWitness ==
  /\ last.op = "compute"
  /\ last.err = "Cycle"
  /\ OpenKeys # {}
  /\ \E r \in 1..Len(rules) : \E ref \in RuleRefs(rules[r].rule, rules[r].id) :
       ref.has /\ ref.offset > 0
  /\ \E r \in 1..Len(rules) : \E ref \in RuleRefs(rules[r].rule, rules[r].id) :
       ref.has /\ ref.offset < 0

(***************************************************************************)
(* Properties of the engine around a compute().                            *)
(***************************************************************************)
\* C25 (as stated): a compute() that throws leaves the period table, the
\* index of the period ids, the value store, the account table and the
\* rules as they were before the call.
FailedComputeKeepsEngine ==
  (last.op = "compute" /\
   last.err \in {"MissingBaseProfit", "MissingRule", "Cycle", "PeriodOutOfRange",
                 "DivisionByZero"}) =>
    /\ periods = last.pre.periods
    /\ periodIndexById = last.pre.periodIndexById
    /\ values = last.pre.values
    /\ accounts = last.pre.accounts
    /\ rules = last.pre.rules

\* the accounts a client can ask the value of
AskedAccounts ==
  KeyAccounts \cup {last.pre.accounts[i].id : i \in 1..Len(last.pre.accounts)}
              \cup {last.pre.rules[i].id : i \in 1..Len(last.pre.rules)}

\* the keys of the period the last compute() appended
AppendedKeys == {createValueKeyString(last.periodId, rules[r].id) : r \in 1..Len(rules)}

RECURSIVE Occurrences(_, _)
Occurrences(formulaNode, id) ==
  CASE formulaNode.type = "ACCOUNT" -> IF formulaNode.id = id THEN 1 ELSE 0
    [] formulaNode.type = "BINARY_OP" ->
         Occurrences(formulaNode.left, id) + Occurrences(formulaNode.right, id)
    [] OTHER -> 0

CashChangeFormula == GetById(rules, "cash_change_cf").rule.formulaNode

\* the term of the base profit: the base-profit account itself or the
\* account that mirrors it
BaseProfitTerms ==
  {"baseProfit_cf"} \cup
  {last.pre.accounts[i].id : i \in {j \in 1..Len(last.pre.accounts) :
                                     last.pre.accounts[j].isCfBaseProfit}}

\* C27 (as stated): the formula synthesized for cash_change_cf holds one
\* term of the base profit, and every account it refers to it refers to
\* once.
NoDoubleCounting ==
  Synthesized =>
    /\ \E b \in BaseProfitTerms : Occurrences(CashChangeFormula, b) = 1
    /\ \A ref \in FormulaRefs(CashChangeFormula) :
         Occurrences(CashChangeFormula, ref.id) = 1

(***************************************************************************)
(* Properties of the dependency relation before and after the synthesis.  *)
(***************************************************************************)
\* the keys a key depends on when the rules are those of the table given
DependsOnIn(table, k) ==
  IF createValueKeyString(k.p, k.a) \in DOMAIN last.pre.values THEN {}
  ELSE IF ~HasId(table, k.a) THEN {}
  ELSE UNION {RefKeys(k.p, ref) : ref \in RuleRefs(GetById(table, k.a).rule, k.a)}

RECURSIVE ReachIn(_, _)
ReachIn(table, S) ==
  LET T == S \cup UNION {DependsOnIn(table, k) : k \in S}
  IN  IF T = S THEN S ELSE ReachIn(table, T)

RECURSIVE PeelIn(_, _)
PeelIn(table, S) ==
  LET T == {k \in S : DependsOnIn(table, k) \cap S # {}}
  IN  IF T = S THEN S ELSE PeelIn(table, T)

\* the relation of the rules compute() was called with has no cycle
BaseAcyclic == PeelIn(last.pre.rules, Keys) = {}

\* the relation of the rules after the synthesis has none
SynthesizedAcyclic == PeelIn(rules, Keys) = {}

\* the accounts x_cf_adj and x_cf_wc, and all the accounts whose rule the
\* synthesis writes
AdjustmentIds ==
  {a \o "_cf_adj" : a \in KeyAccounts} \cup {a \o "_cf_wc" : a \in KeyAccounts}

SynthesizedIds == {"cash", "cash_change_cf", "baseProfit_cf"} \cup AdjustmentIds

\* the keys the synthesized rules read from the model of the client: the
\* base profit, the flow accounts, the balance sheet accounts that have a
\* rule x_cf_wc and the cash of the period before
ReadKeys ==
  {r \in UNION {DependsOnIn(rules, k) : k \in {x \in Keys : x.a = "cash"}} :
     r.a # "cash_change_cf"}
    \cup
  {r \in UNION {DependsOnIn(rules, k) : k \in {x \in Keys : x.a = "cash_change_cf"}} :
     r.a \notin AdjustmentIds \cup {"baseProfit_cf"}}
    \cup
  {r \in UNION {DependsOnIn(rules, k) :
                  k \in {x \in Keys : x.a \in AdjustmentIds \cup {"baseProfit_cf"}}} :
     r.a \notin AdjustmentIds}

\* none of them is, or is computed from, a key of cash or of another
\* account whose rule the synthesis writes, unless that key has a value in
\* the store
ReadsApartFromCash ==
  \A k \in ReachIn(last.pre.rules, ReadKeys) :
    \/ createValueKeyString(k.p, k.a) \in DOMAIN last.pre.values
    \/ k.a \notin SynthesizedIds

\* cash_change_cf of the new period depends on cash of the new period
CashChangeFromCash ==
  Key(last.periodId, "cash") \in
    ReachIn(rules, DependsOnIn(rules, Key(last.periodId, "cash_change_cf")))

\* C28 (as amended): when the relation of the rules compute() was called
\* with has no cycle and no key the synthesized rules read is, or is
\* computed from, a key without a stored value of cash or of another
\* account whose rule the synthesis writes, the relation of the rules after the synthesis has no cycle, compute()
\* does not fail with the cycle error and cash_change_cf of the new period
\* does not depend on cash of the new period.
SynthesisKeepsAcyclic ==
  (Synthesized /\ BaseAcyclic /\ ReadsApartFromCash) =>
    /\ SynthesizedAcyclic
    /\ last.err # "Cycle"
    /\ ~CashChangeFromCash

\* C28, witness: a compute() succeeded on rules without a cycle in which an
\* account the synthesized rules read is computed from other keys, none of
\* them of cash
SynthesisKeepsAcyclicWitness ==
  /\ Synthesized
  /\ BaseAcyclic
  /\ ReadsApartFromCash
  /\ last.err = ""
  /\ \E k \in ReadKeys :
       /\ k.p = last.periodId
       /\ DependsOnIn(last.pre.rules, k) # {}
       /\ HasId(last.pre.rules, k.a)
       /\ GetById(last.pre.rules, k.a).rule.type = "CALCULATION"

\* C28 (as stated): when the relation of the rules compute() was called
\* with has no cycle, the relation after the synthesis has none, compute()
\* does not fail with the cycle error and cash_change_cf does not depend on
\* cash of the same period.
SynthesisPreservesAcyclicity ==
  (Synthesized /\ BaseAcyclic) =>
    /\ SynthesizedAcyclic
    /\ last.err # "Cycle"
    /\ ~CashChangeFromCash

(***************************************************************************)
(* Properties of a second compute() for the same period, as the hook       *)
(* useFinancialModel makes it: setPeriods with the list compute() was      *)
(* called with, then compute() again.                                      *)
(***************************************************************************)
\* the engine after setPeriods(the list the last compute() was called with)
Rewound == setPeriods(Fam, last.pre.periods).fam

\* what compute() does then
Again == compute(generator, Rewound)

\* C29: after a compute() that returned, setPeriods with the original list
\* and compute() again returns, derives the same period id, returns the same
\* result map and leaves the value store as it was; every key it builds a
\* node for has a value in the store and is one of the keys of the rules.
Recompute ==
  (last.op = "compute" /\ last.err = "") =>
    \E again \in {Again} :
      /\ again.err = ""
      /\ again.periodId = last.periodId
      /\ again.output = last.output
      /\ again.fam.values = values
      /\ \A i \in 1..Len(again.log) :
           /\ again.log[i].key \in DOMAIN values
           /\ \E j \in 1..Len(again.fam.rules) :
                again.log[i].key =
                  createValueKeyString(last.periodId, again.fam.rules[j].id)

\* C29, witness: a compute() returned values it had computed through
\* operations, some of them not whole numbers, and the second compute() for
\* the same period read them all back
RecomputeWitness ==
  /\ last.op = "compute"
  /\ last.err = ""
  /\ \E i \in 1..Len(last.log) : nodeRegistry[last.log[i].id].type = "TT"
  /\ \E k \in DOMAIN values \ DOMAIN last.pre.values :
       roundToInteger(values[k]) # values[k]
  /\ \E again \in {Again} :
       /\ again.err = ""
       /\ Len(again.log) = Len(rules)
       /\ Len(again.log) > 2

(***************************************************************************)
(* Properties of loadInputData.                                            *)
(***************************************************************************)
\* C30 (as stated): a loadInputData that fails leaves the value store as it
\* was before the call.
FailedLoadKeepsValues ==
  (last.op = "loadInputData" /\ last.err # "") => values = last.pre.values

====
